---- MODULE Spec2Model ----
(***************************************************************************)
(* Verification model of the HeliCal rig software: the G-code interpreter  *)
(* (master_queue.cpp), the stepper bus codec and axis-group fan-out        *)
(* (TicController.cpp, AxisGroup), the homing helper and abort channel     *)
(* (HeliCalHelper.cpp) and the serial client's blocking waits              *)
(* (Esp32UART.cpp).                                                        *)
(***************************************************************************)
EXTENDS Integers, Sequences, FiniteSets, TLC

VARIABLES
    abort,            \* _abort_flag (HeliCalHelper.cpp:11)
    tic,              \* the eight stepper drivers' registers and motor state
    periph,           \* theta velocity, projector video source, LED
    pc,               \* position of main() in the command loop
    commandQueue,     \* std::queue<std::string> commandQueue
    executingQueue,   \* bool executingQueue
    cmd,              \* cmd_from_queue, the line being executed
    nlines,           \* number of lines accepted from stdin so far
    hist,             \* observation record of the interpreter run
    fan,              \* one AxisGroup fan-out call and its bus transactions
    home,             \* one zeroAxisPair call
    uart,             \* one blocking wait of the serial client
    pkt,              \* one call of the serial client's packet reader
    interp,           \* G-code interpreter state: mode, feeds, dispatch log
    codec,            \* one encoding call: driver frame, serial frame, conversions
    fw,               \* companion firmware: velocity loop and zeroing sequence
    wa                \* one call of wait_or_abort, or of consume_enter with its flag

vars == <<abort, tic, periph, pc, commandQueue, executingQueue, cmd, nlines,
          hist, fan, home, uart, pkt, interp, codec, fw, wa>>

-----------------------------------------------------------------------------
(* Bounds of the model *)

\* number of input lines the interpreter reads in one run
MaxLines == 3

-----------------------------------------------------------------------------
(* Drivers and axis groups: master_queue.cpp:172-188 *)

Tics == {"tic_tw_z1", "tic_tw_z2", "tic_tw_t", "tic_tw_r",
         "tic_cw_z1", "tic_cw_z2", "tic_cw_t", "tic_cw_r"}

\* I2C address of each driver
Addr(m) ==
    CASE m = "tic_tw_z1" -> 16
      [] m = "tic_tw_z2" -> 17
      [] m = "tic_tw_t"  -> 15
      [] m = "tic_tw_r"  -> 14
      [] m = "tic_cw_z1" -> 20
      [] m = "tic_cw_z2" -> 21
      [] m = "tic_cw_t"  -> 19
      [] m = "tic_cw_r"  -> 18

AX_R == <<"tic_tw_r", "tic_cw_r">>
AX_T == <<"tic_tw_t", "tic_cw_t">>
AX_Z == <<"tic_tw_z1", "tic_tw_z2", "tic_cw_z1", "tic_cw_z2">>

AxisGroups == {AX_R, AX_T, AX_Z}

GroupOf(axis) ==
    CASE axis = "R" -> AX_R
      [] axis = "T" -> AX_T
      [] axis = "Z" -> AX_Z

\* representative controller used for read-backs
rep_ctrl_for(axis) ==
    CASE axis = "R" -> "tic_tw_r"
      [] axis = "T" -> "tic_tw_t"
      [] axis = "Z" -> "tic_tw_z1"

STEPPER_Z_MAXVELOCITY == 105000000
STEPPER_RT_MAXVELOCITY == 450000000

axis_max_speed(axis) ==
    CASE axis \in {"R", "T"} -> STEPPER_RT_MAXVELOCITY
      [] axis = "Z" -> STEPPER_Z_MAXVELOCITY
      [] OTHER -> 0

HOME_DIR_R == 1
HOME_OFF_R == -283000
HOME_DIR_T == 1
HOME_OFF_T == -335288
HOME_DIR_Z == 0
HOME_OFF_Z == 24025

-----------------------------------------------------------------------------
(* Bus transaction codec: TicController.cpp:66-100 *)

Pow256(i) == CASE i = 0 -> 1 [] i = 1 -> 256 [] i = 2 -> 65536 [] i = 3 -> 16777216

\* (uint8_t)(value >> 8*i & 0xFF) of an int32_t value: the shift is
\* arithmetic (floor division), the mask keeps the low eight bits
ByteOfBE(v, i) == (v \div Pow256(3 - i)) % 256
ByteOf(v, i) == (v \div Pow256(i)) % 256

\* the 5-byte buffer writeCommand puts on the bus
writeCommandFrame(command, value) ==
    <<command, ByteOf(value, 0), ByteOf(value, 1), ByteOf(value, 2), ByteOf(value, 3)>>

\* a variant that sends every operation as 0x85
OpCodeAllEnergize(op) == 133

\* opcode of each driver operation
OpCode(op) ==
    CASE op = "exitSafeStart"       -> 131   \* 0x83
      [] op = "resetCommandTimeout" -> 133   \* 0x85
      [] op = "deenergize"          -> 134   \* 0x86
      [] op = "energize"            -> 133   \* 0x85
      [] op = "clearDriverError"    -> 138   \* 0x8A
      [] op = "setTargetPosition"   -> 224   \* 0xE0
      [] op = "haltAndSetPosition"  -> 236   \* 0xEC
      [] op = "haltAndHold"         -> 137   \* 0x89
      [] op = "goHome"              -> 151   \* 0x97
      [] op = "setMaxSpeed"         -> 230   \* 0xE6
      [] op = "setMaxAcceleration"  -> 234   \* 0xEA
      [] op = "setMaxDeceleration"  -> 233   \* 0xE9
      [] op = "setStepMode"         -> 148   \* 0x94
      [] op = "setCurrentLimit"     -> 145   \* 0x91
      [] op = "enterSafeStart"      -> 143   \* 0x8F
      [] op = "reset"               -> 176   \* 0xB0
      [] op = "setTargetVelocity"   -> 227   \* 0xE3
      [] op = "setStartingSpeed"    -> 229   \* 0xE5
      [] op = "setDecayMode"        -> 146   \* 0x92
      [] op = "setAGCOption"        -> 152   \* 0x98
      [] op = "setCommandTimeout"   -> 163   \* 0xA3

\* one driver call: the bus transaction it makes
BusTxn(call) ==
    [addr |-> Addr(call.m), frame |-> writeCommandFrame(OpCode(call.op), call.val)]

-----------------------------------------------------------------------------
(* AxisGroup: master_queue.cpp:65-107.  A group method calls the same     *)
(* driver method on a, b, c, d in that order.                              *)

\* a variant in which only member a is called
AxisGroupCallFirstOnly(grp, op, val) ==
    <<[m |-> grp[1], op |-> op, val |-> val]>>

AxisGroupCall(grp, op, val) ==
    [i \in 1..Len(grp) |-> [m |-> grp[i], op |-> op, val |-> val]]

(* A sequence of driver calls in which the failAt-th transaction fails     *)
(* (ioctl != 1, writeCommand throws): the calls before it took effect, the *)
(* failing one was attempted, the ones after it are never reached.         *)
(* failAt = 0: no transaction fails.                                       *)
Threw(plan, failAt) == failAt \in 1..Len(plan)

\* a variant in which the calls after a failing one are still made
AttemptedAll(plan, failAt) == plan

Attempted(plan, failAt) ==
    IF Threw(plan, failAt) THEN SubSeq(plan, 1, failAt) ELSE plan

Delivered(plan, failAt) ==
    IF Threw(plan, failAt) THEN SubSeq(plan, 1, failAt - 1) ELSE plan

-----------------------------------------------------------------------------
(* The drivers as seen from the bus.  tic[m] holds the registers the code  *)
(* writes and reads back: target position (variable 0x0A), current         *)
(* position (0x22), max speed, and the flags energized, halted (halt-and-  *)
(* hold received, no target since) and homing (bit 4 of variable 0x01).    *)

TicAt(p) ==
    [tgt |-> p, pos |-> p, spd |-> 0, energized |-> TRUE,
     halted |-> FALSE, homing |-> FALSE]

\* the effect of one delivered write transaction on the addressed driver,
\* decided by the opcode that reaches it
ApplyCall(t, c) ==
    LET code == OpCode(c.op)
        r == t[c.m]
    IN  CASE code = 224 -> [t EXCEPT ![c.m] = [r EXCEPT !.tgt = c.val, !.halted = FALSE]]
          [] code = 230 -> [t EXCEPT ![c.m] = [r EXCEPT !.spd = c.val]]
          [] code = 133 -> [t EXCEPT ![c.m] = [r EXCEPT !.energized = TRUE]]
          [] code = 134 -> [t EXCEPT ![c.m] = [r EXCEPT !.energized = FALSE]]
          [] code = 137 -> [t EXCEPT ![c.m] = [r EXCEPT !.halted = TRUE]]
          [] code = 151 -> [t EXCEPT ![c.m] = [r EXCEPT !.homing = TRUE, !.halted = FALSE]]
          [] code = 236 -> [t EXCEPT ![c.m] = [r EXCEPT !.pos = c.val, !.halted = TRUE]]
          [] OTHER -> t

RECURSIVE ApplyCalls(_, _)
ApplyCalls(t, calls) ==
    IF calls = <<>> THEN t
    ELSE ApplyCalls(ApplyCall(t, Head(calls)), Tail(calls))

\* driver state after a call sequence whose failAt-th transaction fails
RunBus(t, plan, failAt) == ApplyCalls(t, Delivered(plan, failAt))

\* readVariable(0x01): misc flags; bit 0 energized, bit 4 homing active
MiscFlags(r) == (IF r.energized THEN 1 ELSE 0) + (IF r.homing THEN 16 ELSE 0)

\* f & (1 << 4)
HomingBit(f) == (f \div 16) % 2 = 1

Abs(x) == IF x < 0 THEN -x ELSE x

(* The motors.  A driver that is not halted and not homing moves its       *)
(* current position toward its target: a long move is shortened to the     *)
(* last two pulses, which are then taken one at a time.                    *)
NextPos(pos, tgt) ==
    IF pos = tgt THEN pos
    ELSE IF tgt - pos > 2 THEN tgt - 2
    ELSE IF pos - tgt > 2 THEN tgt + 2
    ELSE IF pos < tgt THEN pos + 1
    ELSE pos - 1

Moves(r) == ~r.halted /\ ~r.homing /\ r.pos # r.tgt

\* the members of one group are mechanically coupled and move together
MotorStepGroup(t, grp) ==
    [m \in Tics |->
        IF (\E i \in 1..Len(grp) : grp[i] = m) /\ Moves(t[m])
        THEN [t[m] EXCEPT !.pos = NextPos(t[m].pos, t[m].tgt)]
        ELSE t[m]]

-----------------------------------------------------------------------------
(* Abort channel: HeliCalHelper.cpp:36-46 *)

abort_requested_never == FALSE
abort_requested == abort

\* request_abort(): a software component or the key listener raises the flag
request_abort ==
    /\ pc \in {"prompt", "loop_top", "dispatch", "wait"}
    /\ ~abort
    /\ abort' = TRUE
    /\ hist' = [hist EXCEPT !.reqPending = TRUE,
                            !.abortAtDone = IF @ = -1 THEN hist.ndone ELSE @]
    /\ UNCHANGED <<tic, periph, pc, commandQueue, executingQueue, cmd, nlines,
                   fan, home, uart, pkt, interp, codec, fw, wa>>

-----------------------------------------------------------------------------
(* Command interpreter: master_queue.cpp main() *)

\* default feed of R, T and Z (F_global, F_axis at start-up)
F_global == 100000

F_axis(axis) == F_global

\* the input lines of the model: G1 moves of one axis and M17
MoveVals == {5}

LineSet ==
    {[head |-> "G", num |-> 1, axis |-> a, val |-> v] : a \in {"R", "Z"}, v \in MoveVals}
    \cup {[head |-> "M", num |-> 17, axis |-> "-", val |-> 0]}

NoCmd == [id |-> 0, head |-> "-", num |-> 0, axis |-> "-", val |-> 0]

\* vector<TicController*> all
all == <<"tic_tw_z1", "tic_tw_z2", "tic_tw_t", "tic_tw_r",
         "tic_cw_z1", "tic_cw_z2", "tic_cw_t", "tic_cw_r">>

Call(m, op, val) == [m |-> m, op |-> op, val |-> val]

RECURSIVE Concat(_)
Concat(ss) == IF ss = <<>> THEN <<>> ELSE Head(ss) \o Concat(Tail(ss))

\* ensure_ready(grp): four calls per member, member after member
ensure_ready(grp) ==
    Concat([i \in 1..Len(grp) |->
        <<Call(grp[i], "clearDriverError", 0), Call(grp[i], "exitSafeStart", 0),
          Call(grp[i], "energize", 0), Call(grp[i], "resetCommandTimeout", 0)>>])

\* try_apply_axis_speed: the feed is applied only when 0 < req <= cap
FeedOk(axis) == F_axis(axis) > 0 /\ F_axis(axis) <= axis_max_speed(axis)

\* move_axis(axis, grp, target): its bus writes in program order
move_axis(axis, target) ==
    LET grp == GroupOf(axis)
    IN  ensure_ready(grp)
        \o (IF FeedOk(axis)
            THEN AxisGroupCall(grp, "setMaxSpeed", F_axis(axis))
                 \o AxisGroupCall(grp, "setTargetPosition", target)
            ELSE <<>>)

\* motors_enable(): energize every driver
motors_enable == [i \in 1..Len(all) |-> Call(all[i], "energize", 0)]

\* disable_axis(axis)
disable_axis(axis) == AxisGroupCall(GroupOf(axis), "deenergize", 0)

\* motors_disable() with no axes named: R and T only (then theta velocity 0)
motors_disable_default == disable_axis("R") \o disable_axis("T")

\* AX_R.haltAndHold(); AX_T.haltAndHold(); AX_Z.haltAndHold();
HaltAll ==
    AxisGroupCall(AX_R, "haltAndHold", 0) \o AxisGroupCall(AX_T, "haltAndHold", 0)
    \o AxisGroupCall(AX_Z, "haltAndHold", 0)

\* the wait loop's condition: some representative is not at its target
RepMoving(t) ==
    \/ t["tic_tw_r"].pos # t["tic_tw_r"].tgt
    \/ t["tic_tw_t"].pos # t["tic_tw_t"].tgt
    \/ t["tic_tw_z1"].pos # t["tic_tw_z1"].tgt

QueueIds(q) == {q[i].id : i \in 1..Len(q)}

\* front() without pop(): the line stays queued
DequeuedNoPop(q) == q

\* std::queue pop after front
Dequeued(q) == Tail(q)

\* the final offset start-up homing leaves each driver at (lines 207-209)
HomeOffOf(m) ==
    IF m \in {"tic_tw_r", "tic_cw_r"} THEN HOME_OFF_R
    ELSE IF m \in {"tic_tw_t", "tic_cw_t"} THEN HOME_OFF_T
    ELSE HOME_OFF_Z

\* the program after start-up homing, at its first prompt
InitInterp ==
    /\ abort = FALSE
    /\ tic = [m \in Tics |-> TicAt(HomeOffOf(m))]
    /\ periph = [thetaSent |-> FALSE, theta |-> 0, video |-> "on", led |-> "on"]
    /\ pc = "prompt"
    /\ commandQueue = <<>>
    /\ executingQueue = FALSE
    /\ cmd = NoCmd
    /\ nlines = 0
    /\ hist = [dispatched |-> <<>>, dropped |-> {}, ndone |-> 0, abortAtDone |-> -1,
               reqPending |-> FALSE, faultOpen |-> FALSE, waitErr |-> FALSE,
               from |-> "start", onlyG1 |-> TRUE, fault |-> FALSE,
               spaces |-> 0]

\* getline succeeds: the line is pushed; the queue is drained unless a drain
\* is already running (lines 358-366)
ReadLine ==
    /\ pc = "prompt"
    /\ nlines < MaxLines
    /\ \E l \in LineSet :
        /\ commandQueue' = Append(commandQueue,
              [id |-> nlines + 1, head |-> l.head, num |-> l.num,
               axis |-> l.axis, val |-> l.val])
        /\ hist' = [hist EXCEPT !.waitErr = FALSE, !.from = "start",
                                !.onlyG1 = @ /\ l.head = "G" /\ l.num = 1]
    /\ nlines' = nlines + 1
    /\ IF executingQueue
       THEN UNCHANGED <<pc, executingQueue>>
       ELSE executingQueue' = TRUE /\ pc' = "loop_top"
    /\ UNCHANGED <<abort, tic, periph, cmd, fan, home, uart, pkt, interp, codec, fw, wa>>

\* getline fails (end of input): the cleanup of lines 803-810
EndOfInput ==
    /\ pc = "prompt"
    /\ \E uartFail \in BOOLEAN, k \in 0..Len(all) :
        LET plan == [i \in 1..Len(all) |-> Call(all[i], "deenergize", 0)]
        IN  IF uartFail
            THEN /\ pc' = "crashed"
                 /\ UNCHANGED <<tic, periph>>
            ELSE /\ periph' = [thetaSent |-> TRUE, theta |-> 0,
                               video |-> "powerdown", led |-> "stopped"]
                 /\ tic' = RunBus(tic, plan, k)
                 /\ pc' = IF Threw(plan, k) THEN "crashed" ELSE "exited"
    /\ hist' = [hist EXCEPT !.waitErr = FALSE, !.fault = @ \/ pc' = "crashed"]
    /\ UNCHANGED <<abort, commandQueue, executingQueue, cmd, nlines, fan, home, uart, pkt, interp, codec, fw, wa>>

\* a variant that goes back to the prompt with executingQueue still set
LoopExitStillExecuting ==
    /\ pc = "loop_top"
    /\ commandQueue = <<>>
    /\ pc' = "prompt"
    /\ UNCHANGED <<abort, tic, periph, commandQueue, executingQueue, cmd, nlines, hist,
                   fan, home, uart, pkt, interp, codec, fw, wa>>

\* while (!commandQueue.empty()) is false: lines 790-799
LoopExit ==
    /\ pc = "loop_top"
    /\ commandQueue = <<>>
    /\ executingQueue' = FALSE
    /\ pc' = "prompt"
    /\ UNCHANGED <<abort, tic, periph, commandQueue, cmd, nlines, hist, fan, home, uart, pkt, interp, codec, fw, wa>>

\* abort seen before a command is taken: lines 370-379
AbortFlush ==
    /\ pc = "loop_top"
    /\ commandQueue # <<>>
    /\ abort_requested
    /\ commandQueue' = <<>>
    /\ \E k \in 0..Len(motors_disable_default), uartFail \in BOOLEAN :
        LET plan == motors_disable_default
        IN  /\ tic' = RunBus(tic, plan, k)
            /\ IF Threw(plan, k)
               THEN pc' = "crashed" /\ UNCHANGED <<periph, executingQueue>>
               ELSE IF uartFail
               THEN pc' = "crashed" /\ UNCHANGED <<periph, executingQueue>>
               ELSE /\ periph' = [thetaSent |-> TRUE, theta |-> 0,
                                  video |-> "powerdown", led |-> "stopped"]
                    /\ executingQueue' = FALSE
                    /\ pc' = "prompt"
    /\ hist' = [hist EXCEPT !.reqPending = FALSE,
                            !.fault = @ \/ pc' = "crashed",
                            !.dropped = @ \cup {[id |-> i, cause |-> "abort"] :
                                                 i \in QueueIds(commandQueue)}]
    /\ UNCHANGED <<abort, cmd, nlines, fan, home, uart, pkt, interp, codec, fw, wa>>

\* front() and pop(): lines 381-383
Dequeue ==
    /\ pc = "loop_top"
    /\ commandQueue # <<>>
    /\ ~abort_requested
    /\ cmd' = Head(commandQueue)
    /\ commandQueue' = Dequeued(commandQueue)
    /\ pc' = "dispatch"
    /\ hist' = [hist EXCEPT !.dispatched = Append(@, Head(commandQueue).id)]
    /\ UNCHANGED <<abort, tic, periph, executingQueue, nlines, fan, home, uart, pkt, interp, codec, fw, wa>>

\* the try block of lines 408-751 for the command taken
Dispatch ==
    /\ pc = "dispatch"
    /\ cmd.num # 112
    /\ LET plan == IF cmd.head = "M" THEN motors_enable
                   ELSE move_axis(cmd.axis, cmd.val)
       IN  \E k \in 0..Len(plan) :
            /\ tic' = RunBus(tic, plan, k)
            /\ IF cmd.head = "M" /\ ~Threw(plan, k)
               THEN pc' = "loop_top"     \* continue: M-codes do not wait
               ELSE pc' = "wait"         \* G-code, or the catch of line 747
            /\ hist' = [hist EXCEPT
                    !.faultOpen = @ \/ (cmd.head = "G" /\ Threw(plan, k)),
                    !.fault = @ \/ Threw(plan, k),
                    !.from = IF cmd.head = "M" /\ ~Threw(plan, k) THEN "M" ELSE @]
    /\ UNCHANGED <<abort, periph, commandQueue, executingQueue, cmd, nlines,
                   fan, home, uart, pkt, interp, codec, fw, wa>>

\* the catch of lines 772-779 and the flush of lines 782-786
WaitLoopError(t) ==
    \E k \in 0..Len(HaltAll) :
        /\ tic' = RunBus(t, HaltAll, k)
        /\ IF Threw(HaltAll, k)
           THEN /\ pc' = "crashed"
                /\ hist' = [hist EXCEPT !.waitErr = TRUE, !.fault = TRUE]
                /\ UNCHANGED <<commandQueue, executingQueue>>
           ELSE /\ commandQueue' = <<>>
                /\ executingQueue' = FALSE
                /\ pc' = "prompt"
                /\ hist' = [hist EXCEPT !.waitErr = TRUE, !.faultOpen = FALSE,
                        !.fault = TRUE,
                        !.dropped = @ \cup {[id |-> i, cause |-> "waiterr"] :
                                             i \in QueueIds(commandQueue)}]

\* one evaluation of the wait loop's condition and body: lines 753-788
WaitPoll ==
    /\ pc = "wait"
    /\ \E rdFail \in BOOLEAN :
        IF rdFail
        THEN WaitLoopError(tic)
        ELSE IF ~RepMoving(tic)
        THEN /\ pc' = "loop_top"
             /\ hist' = [hist EXCEPT !.ndone = @ + 1, !.from = "arrived"]
             /\ UNCHANGED <<tic, commandQueue, executingQueue>>
        ELSE IF abort_requested
        THEN \E k \in 0..Len(HaltAll) :
                IF Threw(HaltAll, k)
                THEN WaitLoopError(RunBus(tic, HaltAll, k))
                ELSE /\ tic' = RunBus(tic, HaltAll, k)
                     /\ pc' = "loop_top"
                     /\ hist' = [hist EXCEPT !.from = "abort"]
                     /\ UNCHANGED <<commandQueue, executingQueue>>
        ELSE UNCHANGED <<tic, pc, hist, commandQueue, executingQueue>>
    /\ UNCHANGED <<abort, periph, cmd, nlines, fan, home, uart, pkt, interp, codec, fw, wa>>

\* the motors of one group advance while the program runs
MotorStep ==
    /\ pc \in {"prompt", "loop_top", "dispatch", "wait"}
    /\ \E grp \in AxisGroups :
        /\ \E i \in 1..Len(grp) : Moves(tic[grp[i]])
        /\ tic' = MotorStepGroup(tic, grp)
    /\ UNCHANGED <<abort, periph, pc, commandQueue, executingQueue, cmd, nlines,
                   hist, fan, home, uart, pkt, interp, codec, fw, wa>>

IdleFan == fan = [called |-> FALSE]
IdleHome == home = [phase |-> "idle"]
IdleUart == uart = [call |-> "idle"]
IdlePkt == pkt = [phase |-> "idle"]
IdleCodec == codec = [kind |-> "idle", frames |-> <<>>]
IdleFw == fw = [phase |-> "idle"]
IdleWa == wa = [phase |-> "idle"]
IdleRest == IdleCodec /\ IdleFw /\ IdleWa

\* F_axis['A'] at start-up, in RPM (line 221)
A_FEED_DEFAULT == 9

\* no line dispatched yet
NoDispatch == [id |-> 0, text |-> "-", after |-> "-"]

\* absolute_mode, F_global and F_axis as main() sets them up (lines 217-221);
\* last is the record of the line dispatched most recently
InterpAtStart(mode) ==
    [absolute_mode |-> mode, F_global |-> F_global,
     F_axis |-> [a \in {"R", "T", "Z", "A"} |->
                    IF a = "A" THEN A_FEED_DEFAULT ELSE F_global],
     last |-> NoDispatch]

InitInterpState == interp = InterpAtStart(TRUE)

Init == InitInterp /\ IdleFan /\ IdleHome /\ IdleUart /\ IdlePkt /\ InitInterpState /\ IdleRest

Next ==
    \/ ReadLine
    \/ EndOfInput
    \/ LoopExit
    \/ AbortFlush
    \/ Dequeue
    \/ Dispatch
    \/ WaitPoll
    \/ MotorStep
    \/ request_abort

Spec == Init /\ [][Next]_vars

-----------------------------------------------------------------------------
(* Claims about the interpreter's queue, abort and error handling *)

AllHalted == \A m \in Tics : tic[m].halted

\* the interpreter has seen the abort: at the top of the loop or in the wait loop
AbortObserved == abort /\ (~hist.reqPending \/ hist.from = "abort")

\* C1: when abort is signalled after the first of several queued G1 moves has
\* completed and before the second completes, the outcome is exactly one
\* completed move, an empty queue, and haltAndHold issued to every member of
\* the R, T and Z groups.
C1_AbortMidQueue ==
    (pc = "prompt" /\ hist.onlyG1 /\ nlines >= 2 /\ hist.abortAtDone = 1
        /\ ~hist.fault /\ AbortObserved)
    => (hist.ndone = 1 /\ commandQueue = <<>> /\ AllHalted)

\* C2: after a bus transaction failed while a G-code motion command was being
\* dispatched, no further command is dequeued before haltAndHold went to all
\* axis groups and the remaining queue was discarded.
C2_HaltOnDispatchFault == pc = "dispatch" => ~hist.faultOpen

\* C3: after a bus read failed in the post-command wait loop, haltAndHold has
\* been issued to all three groups, the queue is empty, and the interpreter is
\* back at the prompt with executing = false.
C3_WaitLoopErrorHalts ==
    hist.waitErr =>
        (pc = "prompt" /\ ~executingQueue /\ commandQueue = <<>> /\ AllHalted)

DroppedIds == {e.id : e \in hist.dropped}

DispatchedIds == {hist.dispatched[i] : i \in 1..Len(hist.dispatched)}

\* C5: lines are dispatched in the order they were accepted, each at most
\* once, and a line leaves the queue without being dispatched only when the
\* queue is cleared by an abort or by a wait-loop transport error.
C5_FifoOrder ==
    /\ \A i, j \in 1..Len(hist.dispatched) :
            i < j => hist.dispatched[i] < hist.dispatched[j]
    /\ \A i, j \in 1..Len(commandQueue) :
            i < j => commandQueue[i].id < commandQueue[j].id
    /\ \A i \in DispatchedIds, j \in QueueIds(commandQueue) : i < j
    /\ DispatchedIds \cup QueueIds(commandQueue) \cup DroppedIds = 1..nlines
    /\ DispatchedIds \cap DroppedIds = {}
    /\ QueueIds(commandQueue) \cap DroppedIds = {}
    /\ \A e \in hist.dropped : e.cause \in {"abort", "waiterr"}

\* two lines were dispatched in turn and a third was dropped by an abort
C5_Witness ==
    /\ Len(hist.dispatched) >= 2
    /\ \E e \in hist.dropped : e.cause = "abort" /\ e.id = 3

\* C6: after a G-code command the next command is not dequeued until the
\* R, T and Z representatives all report position = target, or abort is seen,
\* or a transport error occurs; an M-code command goes on to the next command
\* without entering this wait.
C6_WaitBeforeNext ==
    /\ (pc = "loop_top" /\ hist.from = "arrived") => ~RepMoving(tic)
    /\ pc = "wait" => cmd.head = "G"

\* C9: once the interpreter has handled an abort (queue cleared, stop actions
\* issued) the abort flag is clear again, so the next line is dispatched.
C9_AbortClearedAfterHandling == (pc = "prompt" /\ ~hist.reqPending) => ~abort

-----------------------------------------------------------------------------
(* One fan-out call of an AxisGroup method, transaction by transaction on  *)
(* the bus: master_queue.cpp:65-107 over TicController.cpp:66-100.         *)

\* the AxisGroup methods
FanOps == {"setTargetPosition", "setMaxSpeed", "energize", "deenergize",
           "exitSafeStart", "haltAndHold"}

\* arguments tried for each method
FanArgs(op) ==
    CASE op = "setTargetPosition" ->
            {HOME_OFF_T, HOME_OFF_R, -65536, -1, 0, 5, HOME_OFF_Z, 2147483647}
      [] op = "setMaxSpeed" ->
            {0, F_global, STEPPER_Z_MAXVELOCITY, STEPPER_RT_MAXVELOCITY}
      [] OTHER -> {0}

FanOutCall ==
    /\ ~fan.called
    /\ \E grp \in AxisGroups, op \in FanOps :
        \E val \in FanArgs(op), k \in 0..Len(grp) :
            LET plan == AxisGroupCall(grp, op, val)
                sent == Attempted(plan, k)
            IN  /\ fan' = [called |-> TRUE, grp |-> grp, op |-> op, val |-> val,
                           failAt |-> k,
                           log |-> [i \in 1..Len(sent) |-> BusTxn(sent[i])],
                           threw |-> Threw(plan, k)]
                /\ tic' = RunBus(tic, plan, k)
    /\ UNCHANGED <<abort, periph, pc, commandQueue, executingQueue, cmd, nlines,
                   hist, home, uart, pkt, interp, codec, fw, wa>>

NextFan == FanOutCall

SpecFan == Init /\ [][NextFan]_vars

\* the signed 32-bit value carried little-endian in bytes 2..5 of a frame
DecodeLE(frame) ==
    frame[2] + 256 * frame[3] + 65536 * frame[4]
    + 16777216 * (IF frame[5] >= 128 THEN frame[5] - 256 ELSE frame[5])

\* C4: a fan-out call issues one bus transaction per member, in member order,
\* each encoding the same argument; when the transaction to member k fails no
\* transaction is attempted for the members after k (and they keep their
\* state), and the call reports the failure.
C4_FanOut ==
    fan.called =>
        LET n == Len(fan.grp)
            L == Len(fan.log)
        IN  /\ L = (IF fan.failAt = 0 THEN n ELSE fan.failAt)
            /\ \A i \in 1..L :
                /\ fan.log[i].addr = Addr(fan.grp[i])
                /\ Len(fan.log[i].frame) = 5
                /\ fan.log[i].frame[1] = OpCode(fan.op)
                /\ DecodeLE(fan.log[i].frame) = fan.val
            /\ fan.threw = (fan.failAt # 0)
            /\ fan.op = "setTargetPosition" =>
                \A i \in 1..n :
                    tic[fan.grp[i]].tgt =
                        (IF fan.failAt = 0 \/ i < fan.failAt
                         THEN fan.val ELSE HomeOffOf(fan.grp[i]))

\* setTargetPosition on the 4-member Z group whose 3rd transaction fails
C4_Witness ==
    /\ fan.called /\ fan.grp = AX_Z /\ fan.op = "setTargetPosition"
    /\ fan.val = HOME_OFF_R /\ fan.failAt = 3
    /\ Len(fan.log) = 3 /\ fan.threw
    /\ tic["tic_tw_z2"].tgt = HOME_OFF_R /\ tic["tic_cw_z2"].tgt = HOME_OFF_Z

-----------------------------------------------------------------------------
(* zeroAxisPair, 2-member and 4-member forms: HeliCalHelper.cpp:76-132     *)

\* the calls main() makes: master_queue.cpp:207-209 and 701-703
HomeCalls ==
    {[grp |-> AX_R, dir |-> HOME_DIR_R, off |-> HOME_OFF_R],
     [grp |-> AX_T, dir |-> HOME_DIR_T, off |-> HOME_OFF_T],
     [grp |-> AX_Z, dir |-> HOME_DIR_Z, off |-> HOME_OFF_Z]}

Members(grp) == {grp[i] : i \in 1..Len(grp)}

\* only the first member's flag is looked at
StillHomingFirstOnly(t, grp) == HomingBit(MiscFlags(t[grp[1]]))

\* bool homing = (fA & (1 << 4)) || (fB & (1 << 4)) || ...
StillHoming(t, grp) == \E i \in 1..Len(grp) : HomingBit(MiscFlags(t[grp[i]]))

\* std::abs(X.getCurrentPosition() - finalOffset) > 1
Far(t, m, off) == Abs(t[m].pos - off) > 1

\* index of the first member the position condition finds far, Len+1 if none:
\* the || chain stops reading there
FirstFar(t, grp, off) ==
    IF \E i \in 1..Len(grp) : Far(t, grp[i], off)
    THEN CHOOSE i \in 1..Len(grp) :
            /\ Far(t, grp[i], off)
            /\ \A j \in 1..(i - 1) : ~Far(t, grp[j], off)
    ELSE Len(grp) + 1

(* One iteration of the homing-flag loop (lines 82-89, 109-119): abort is  *)
(* looked at first, then every member's variable 0x01 is read; rdFail is   *)
(* the index of the read that fails, 0 for none.                           *)
FlagPoll(t, grp, ab, rdFail) ==
    IF ab THEN "cancelled"
    ELSE IF rdFail # 0 THEN "buserror"
    ELSE IF StillHoming(t, grp) THEN "sleep"
    ELSE "clear"

\* the loop body never looks at the abort flag
PosPollNoAbort(t, grp, off, ab, rdFail) ==
    LET ff == FirstFar(t, grp, off)
    IN  IF rdFail # 0 /\ rdFail <= ff THEN "buserror"
        ELSE IF ff <= Len(grp) THEN "sleep"
        ELSE "returned"

(* One evaluation of the position loop (lines 92-97, 124-131): the         *)
(* condition reads the members' positions in order up to the first far     *)
(* one; only when some member is far does the body look at abort.          *)
PosPoll(t, grp, off, ab, rdFail) ==
    LET ff == FirstFar(t, grp, off)
    IN  IF rdFail # 0 /\ rdFail <= ff THEN "buserror"
        ELSE IF ff <= Len(grp)
             THEN (IF ab THEN "cancelled" ELSE "sleep")
        ELSE "returned"

\* drivers powered up away from home, before any homing
InitHome ==
    /\ abort = FALSE
    /\ tic = [m \in Tics |-> TicAt(5)]
    /\ home = [phase |-> "idle"]

\* A.goHome(homeDir); B.goHome(homeDir); ...
zeroAxisPair_Start ==
    /\ home.phase = "idle"
    /\ \E c \in HomeCalls :
        LET plan == AxisGroupCall(c.grp, "goHome", c.dir)
        IN  \E k \in 0..Len(plan) :
                /\ tic' = RunBus(tic, plan, k)
                /\ home' = [phase |-> IF Threw(plan, k) THEN "buserror" ELSE "flagwait",
                            grp |-> c.grp, off |-> c.off,
                            abortAtFlagPoll |-> FALSE, abortAtPosPoll |-> FALSE,
                            abortAtFarPoll |-> FALSE]
    /\ UNCHANGED <<abort, periph, pc, commandQueue, executingQueue, cmd, nlines,
                   hist, fan, uart, pkt, interp, codec, fw, wa>>

\* one iteration of the first loop; on "clear" the offset move is issued
zeroAxisPair_FlagPoll ==
    /\ home.phase = "flagwait"
    /\ \E rdFail \in 0..Len(home.grp) :
        LET r == FlagPoll(tic, home.grp, abort_requested, rdFail)
            plan == AxisGroupCall(home.grp, "setTargetPosition", home.off)
        IN  IF r = "clear"
            THEN \E k \in 0..Len(plan) :
                    /\ tic' = RunBus(tic, plan, k)
                    /\ home' = [home EXCEPT
                                  !.phase = IF Threw(plan, k) THEN "buserror" ELSE "poswait",
                                  !.abortAtFlagPoll = @ \/ abort]
            ELSE /\ tic' = tic
                 /\ home' = [home EXCEPT
                               !.phase = IF r = "sleep" THEN @ ELSE r,
                               !.abortAtFlagPoll = @ \/ abort]
    /\ UNCHANGED <<abort, periph, pc, commandQueue, executingQueue, cmd, nlines,
                   hist, fan, uart, pkt, interp, codec, fw, wa>>

\* one evaluation of the second loop
zeroAxisPair_PosPoll ==
    /\ home.phase = "poswait"
    /\ \E rdFail \in 0..Len(home.grp) :
        LET r == PosPoll(tic, home.grp, home.off, abort_requested, rdFail)
            ff == FirstFar(tic, home.grp, home.off)
        IN  home' = [home EXCEPT
                       !.phase = IF r = "sleep" THEN @ ELSE r,
                       !.abortAtPosPoll = @ \/ abort,
                       !.abortAtFarPoll = @ \/ (abort /\ ff <= Len(home.grp)
                                                  /\ (rdFail = 0 \/ rdFail > ff))]
    /\ UNCHANGED <<abort, tic, periph, pc, commandQueue, executingQueue, cmd, nlines,
                   hist, fan, uart, pkt, interp, codec, fw, wa>>

\* a driver finishes its homing run: position 0 at the home switch, flag clear
HomingDone ==
    /\ home.phase \in {"flagwait", "poswait"}
    /\ \E m \in Tics :
        /\ tic[m].homing
        /\ tic' = [tic EXCEPT ![m] = [@ EXCEPT !.homing = FALSE, !.pos = 0, !.tgt = 0]]
    /\ UNCHANGED <<abort, periph, pc, commandQueue, executingQueue, cmd, nlines,
                   hist, fan, home, uart, pkt, interp, codec, fw, wa>>

\* the motors of the group advance toward the offset
HomeMotorStep ==
    /\ home.phase \in {"flagwait", "poswait"}
    /\ \E m \in Members(home.grp) :
        /\ Moves(tic[m])
        /\ tic' = [tic EXCEPT ![m] = [@ EXCEPT !.pos = NextPos(@, tic[m].tgt)]]
    /\ UNCHANGED <<abort, periph, pc, commandQueue, executingQueue, cmd, nlines,
                   hist, fan, home, uart, pkt, interp, codec, fw, wa>>

HomeAbort ==
    /\ home.phase \in {"idle", "flagwait", "poswait"}
    /\ ~abort
    /\ abort' = TRUE
    /\ UNCHANGED <<tic, periph, pc, commandQueue, executingQueue, cmd, nlines,
                   hist, fan, home, uart, pkt, interp, codec, fw, wa>>

InitHomeSpec ==
    /\ InitHome
    /\ periph = [thetaSent |-> FALSE, theta |-> 0, video |-> "on", led |-> "on"]
    /\ pc = "homing" /\ commandQueue = <<>> /\ executingQueue = FALSE
    /\ cmd = NoCmd /\ nlines = 0
    /\ hist = [dispatched |-> <<>>, dropped |-> {}, ndone |-> 0, abortAtDone |-> -1,
               reqPending |-> FALSE, faultOpen |-> FALSE, waitErr |-> FALSE,
               from |-> "start", onlyG1 |-> TRUE, fault |-> FALSE,
               spaces |-> 0]
    /\ IdleFan /\ IdleUart /\ IdlePkt /\ InitInterpState /\ IdleRest

NextHome ==
    \/ zeroAxisPair_Start
    \/ zeroAxisPair_FlagPoll
    \/ zeroAxisPair_PosPoll
    \/ HomingDone
    \/ HomeMotorStep
    \/ HomeAbort

SpecHome == InitHomeSpec /\ [][NextHome]_vars

\* C7: zeroAxisPair returns normally only after goHome went to every member,
\* then every member's homing flag was found clear, then the offset target
\* went to every member, then every member was found within 1 pulse of the
\* offset; the offset move is never issued to a group with a member homing.
C7_HomingOrder ==
    /\ home.phase = "returned" =>
        \A m \in Members(home.grp) :
            /\ ~tic[m].homing
            /\ tic[m].tgt = home.off
            /\ Abs(tic[m].pos - home.off) <= 1
    /\ home.phase \in {"poswait", "returned", "cancelled", "buserror"} =>
        ((\E m \in Members(home.grp) : tic[m].tgt = home.off)
            => \A m \in Members(home.grp) : ~tic[m].homing)

\* the 4-member call returned with every member at the offset
C7_Witness ==
    /\ home.phase = "returned" /\ home.grp = AX_Z
    /\ \A m \in Members(AX_Z) : tic[m].pos = HOME_OFF_Z

\* C8 as stated: an abort flag set at the moment of any poll, in either
\* phase, ends zeroAxisPair with the cancellation error, not a normal return.
C8_AbortAtAnyPoll ==
    (home.phase # "idle" /\ (home.abortAtFlagPoll \/ home.abortAtPosPoll))
        => home.phase # "returned"

\* C8 amended: abort set at an iteration of the homing-flag loop, or at a
\* position poll that reads some member more than 1 pulse from the offset,
\* ends zeroAxisPair with the cancellation error; a position poll that finds
\* every member converged returns normally even with abort set.
C8_AbortAtWaitingPoll ==
    /\ (home.phase # "idle" /\ (home.abortAtFlagPoll \/ home.abortAtFarPoll))
            => home.phase = "cancelled"
    /\ (home.phase = "cancelled") => abort

\* cancelled in the position phase, after the flags had cleared
C8_Witness ==
    /\ home.phase = "cancelled" /\ home.abortAtFarPoll /\ ~home.abortAtFlagPoll
    /\ \A m \in Members(home.grp) : tic[m].tgt = home.off

-----------------------------------------------------------------------------
(* Blocking waits of the serial client: Esp32UART.cpp:99-136, 216-237.     *)
(* Time is counted in milliseconds as the code counts it.                  *)

\* waitForThetaZeroComplete: max_wait_ms and the sleep per iteration
THETA_ZERO_MAX_WAIT_MS == 20000
THETA_ZERO_SLEEP_MS == 200

\* isThetaZeroed: max_wait_ms and the sleep per iteration
THETA_STATUS_MAX_WAIT_MS == 500
THETA_STATUS_SLEEP_MS == 10

\* getImuSample and requestImuCalibration: default timeoutMs
IMU_SAMPLE_TIMEOUT_MS == 500
IMU_CALIB_TIMEOUT_MS == 5000

\* an empty read() lasts VTIME = 1 decisecond; readBytes then sleeps 2 ms
UART_VTIME_MS == 100
READBYTES_SLEEP_MS == 2

UartCalls == {"waitForThetaZeroComplete", "isThetaZeroed",
              "getImuSample", "requestImuCalibration"}

\* the deadline of each wait and the time one empty poll takes
DeadlineOf(c) ==
    CASE c = "waitForThetaZeroComplete" -> THETA_ZERO_MAX_WAIT_MS
      [] c = "isThetaZeroed" -> THETA_STATUS_MAX_WAIT_MS
      [] c = "getImuSample" -> IMU_SAMPLE_TIMEOUT_MS
      [] c = "requestImuCalibration" -> IMU_CALIB_TIMEOUT_MS

PollOf(c) ==
    CASE c = "waitForThetaZeroComplete" -> THETA_ZERO_SLEEP_MS
      [] c = "isThetaZeroed" -> THETA_STATUS_SLEEP_MS
      [] OTHER -> UART_VTIME_MS + READBYTES_SLEEP_MS

\* what one read() of one byte can give: nothing, a zero byte, a non-zero
\* byte, or -1 with an errno other than EAGAIN
ReadResults == {"none", "zero", "nonzero", "error"}

\* the calls that send a command frame before they wait
UartWrites(c) == c # "waitForThetaZeroComplete"

(* One iteration of waitForThetaZeroComplete's loop (lines 127-135):       *)
(* returns on a non-zero byte, throws once waited_ms reaches the maximum.  *)
waitForThetaZeroCompleteStep(u, rd) ==
    IF u.waited < THETA_ZERO_MAX_WAIT_MS
    THEN IF rd = "nonzero"
         THEN [u EXCEPT !.state = "ended", !.result = "ok"]
         ELSE [u EXCEPT !.waited = @ + THETA_ZERO_SLEEP_MS]
    ELSE [u EXCEPT !.state = "ended", !.result = "timeout", !.expired = TRUE]

(* One iteration of isThetaZeroed's loop (lines 105-110): sleeps, reads,   *)
(* counts; ends when a byte was read or the maximum wait is reached.       *)
isThetaZeroedStep(u, rd) ==
    IF u.nread # 1 /\ u.waited < THETA_STATUS_MAX_WAIT_MS
    THEN [u EXCEPT !.nread = IF rd = "none" THEN 0 ELSE IF rd = "error" THEN -1 ELSE 1,
                   !.status = IF rd = "nonzero" THEN 1 ELSE 0,
                   !.waited = @ + THETA_STATUS_SLEEP_MS]
    ELSE [u EXCEPT !.state = "ended",
                   !.result = IF u.nread = 1 /\ u.status # 0 THEN "true" ELSE "false",
                   !.expired = (u.nread # 1)]

(* One iteration of readBytes for the first byte of a packet (lines        *)
(* 218-234), as getImuSample and requestImuCalibration block in it through *)
(* readPacket: a byte ends the wait for it, an empty read checks the       *)
(* deadline and sleeps.                                                    *)
readBytesStep(u, rd) ==
    IF rd \in {"zero", "nonzero"}
    THEN [u EXCEPT !.state = "ended", !.result = "byte"]
    ELSE IF rd = "error"
    THEN [u EXCEPT !.state = "ended", !.result = "ioerror"]
    ELSE IF u.waited + UART_VTIME_MS >= DeadlineOf(u.call)
         THEN [u EXCEPT !.state = "ended", !.result = "false", !.expired = TRUE,
                        !.waited = @ + UART_VTIME_MS]
         ELSE [u EXCEPT !.waited = @ + UART_VTIME_MS + READBYTES_SLEEP_MS]

UartStart ==
    /\ uart.call = "idle"
    /\ \E c \in UartCalls, wrFail \in BOOLEAN :
        /\ wrFail => UartWrites(c)
        /\ uart' = [call |-> c, waited |-> 0, nread |-> 0, status |-> 0,
                    state |-> IF wrFail THEN "ended" ELSE "blocked",
                    result |-> IF wrFail THEN "ioerror" ELSE "-",
                    expired |-> FALSE, abortAt |-> -1]
    /\ UNCHANGED <<abort, tic, periph, pc, commandQueue, executingQueue, cmd, nlines,
                   hist, fan, home, pkt, interp, codec, fw, wa>>

UartStep ==
    /\ uart.call # "idle"
    /\ uart.state = "blocked"
    /\ \E rd \in ReadResults :
        uart' = CASE uart.call = "waitForThetaZeroComplete" ->
                        waitForThetaZeroCompleteStep(uart, rd)
                  [] uart.call = "isThetaZeroed" -> isThetaZeroedStep(uart, rd)
                  [] OTHER -> readBytesStep(uart, rd)
    /\ UNCHANGED <<abort, tic, periph, pc, commandQueue, executingQueue, cmd, nlines,
                   hist, fan, home, pkt, interp, codec, fw, wa>>

\* request_abort() while the client is blocked
UartAbort ==
    /\ uart.call # "idle"
    /\ uart.state = "blocked"
    /\ ~abort
    /\ abort' = TRUE
    /\ uart' = [uart EXCEPT !.abortAt = uart.waited]
    /\ UNCHANGED <<tic, periph, pc, commandQueue, executingQueue, cmd, nlines,
                   hist, fan, home, pkt, interp, codec, fw, wa>>

NextUart == UartStart \/ UartStep \/ UartAbort

SpecUart == Init /\ [][NextUart]_vars

\* C10: an abort set while the serial client is blocked in one of its waits
\* ends that wait with a cancellation before its deadline expires: no wait
\* runs to its deadline when abort was set more than one polling interval
\* before it.
C10_SerialWaitObservesAbort ==
    (uart.call # "idle" /\ uart.state = "ended" /\ uart.expired)
        => (uart.abortAt = -1 \/ uart.abortAt + PollOf(uart.call) >= DeadlineOf(uart.call))

-----------------------------------------------------------------------------
(* IMU packet reader of the serial client: Esp32UART.cpp:168-321.          *)
(* A byte stream is the sequence of bytes the ESP32 sends before the       *)
(* call's deadline; the deadline passes once the stream has run dry.       *)

\* longest noise prefix and longest packet list tried
MaxNoise == 3
MaxPackets == 3

SYNC0 == 73     \* 'I'
SYNC1 == 77     \* 'M'
CMD_IMU == 80                  \* 0x50
IMU_SUB_GET_SAMPLE == 1
IMU_SUB_START_CALIB == 4
PACKET_TYPE_ACK == 160         \* 0xA0
PACKET_TYPE_SAMPLE == 161      \* 0xA1
PACKET_TYPE_STATUS == 162      \* 0xA2
SAMPLE_PAYLOAD_SIZE == 44

\* readBytes(dst, len, deadline): len bytes, or false at the deadline with
\* whatever had arrived consumed
readBytes(s, len) ==
    IF Len(s) >= len
    THEN [ok |-> TRUE, data |-> SubSeq(s, 1, len), rest |-> SubSeq(s, len + 1, Len(s))]
    ELSE [ok |-> FALSE, data |-> <<>>, rest |-> <<>>]

NoPacket == [ok |-> FALSE, type |-> 0, length |-> 0, payload |-> <<>>, rest |-> <<>>]

\* readPacket: one sync byte, then three bytes of which the first must be
\* 'M'; on a mismatch all bytes read so far are dropped and the scan restarts
RECURSIVE readPacket(_)
readPacket(s) ==
    LET sync == readBytes(s, 1)
    IN  IF ~sync.ok THEN NoPacket
        ELSE IF sync.data[1] # SYNC0 THEN readPacket(sync.rest)
        ELSE LET rest == readBytes(sync.rest, 3)
             IN  IF ~rest.ok THEN NoPacket
                 ELSE IF rest.data[1] # SYNC1 THEN readPacket(rest.rest)
                 ELSE LET length == rest.data[3]
                          body == readBytes(rest.rest, length)
                      IN  IF length = 0
                          THEN [ok |-> TRUE, type |-> rest.data[2], length |-> 0,
                                payload |-> <<>>, rest |-> rest.rest]
                          ELSE IF ~body.ok THEN NoPacket
                          ELSE [ok |-> TRUE, type |-> rest.data[2], length |-> length,
                                payload |-> body.data, rest |-> body.rest]

\* parseSamplePayload: a payload of the right size is copied into the sample
\* and remembered as the latest one
parseSamplePayload(payload, cache) ==
    IF Len(payload) # SAMPLE_PAYLOAD_SIZE
    THEN [ok |-> FALSE, sample |-> <<>>, cache |-> cache]
    ELSE [ok |-> TRUE, sample |-> payload, cache |-> [has |-> TRUE, latest |-> payload]]

\* an ACK of any subcommand
AckOfAny(p, sub) == p.type = PACKET_TYPE_ACK /\ Len(p.payload) >= 3

\* header.type == PACKET_TYPE_ACK && payload.size() >= 3 && payload[1] == sub
AckMatches(p, sub) ==
    p.type = PACKET_TYPE_ACK /\ Len(p.payload) >= 3 /\ p.payload[2] = sub

\* a variant that takes the first packet of any kind for a successful ACK
waitForImuAckFirstPacket(sub, s, cache) ==
    [ret |-> readPacket(s).ok, cache |-> cache, rest |-> readPacket(s).rest]

\* waitForImuAck(subcommand, deadline)
RECURSIVE waitForImuAck(_, _, _)
waitForImuAck(sub, s, cache) ==
    LET p == readPacket(s)
    IN  IF ~p.ok THEN [ret |-> FALSE, cache |-> cache, rest |-> p.rest]
        ELSE IF AckMatches(p, sub)
        THEN [ret |-> p.payload[3] # 0, cache |-> cache, rest |-> p.rest]
        ELSE IF p.type = PACKET_TYPE_SAMPLE
        THEN waitForImuAck(sub, p.rest, parseSamplePayload(p.payload, cache).cache)
        ELSE waitForImuAck(sub, p.rest, cache)

\* getImuSample(outSample, timeoutMs) after its command was written;
\* out = <<>> stands for an outSample the call did not write
RECURSIVE getImuSample(_, _)
getImuSample(s, cache) ==
    LET p == readPacket(s)
    IN  IF ~p.ok THEN [ret |-> FALSE, out |-> <<>>, cache |-> cache, rest |-> p.rest]
        ELSE IF p.type = PACKET_TYPE_SAMPLE
        THEN LET parsed == parseSamplePayload(p.payload, cache)
                 ack == waitForImuAck(IMU_SUB_GET_SAMPLE, p.rest, parsed.cache)
             IN  IF ~parsed.ok
                 THEN [ret |-> FALSE, out |-> <<>>, cache |-> cache, rest |-> p.rest]
                 ELSE [ret |-> ack.ret, out |-> parsed.sample, cache |-> ack.cache,
                       rest |-> ack.rest]
        ELSE IF AckMatches(p, IMU_SUB_GET_SAMPLE) /\ p.payload[3] = 0
        THEN [ret |-> FALSE, out |-> <<>>, cache |-> cache, rest |-> p.rest]
        ELSE IF AckMatches(p, IMU_SUB_GET_SAMPLE) /\ cache.has
        THEN [ret |-> TRUE, out |-> cache.latest, cache |-> cache, rest |-> p.rest]
        ELSE getImuSample(p.rest, cache)

\* the bytes of one packet on the wire: 'I', 'M', type, length, payload
Encode(p) == <<SYNC0, SYNC1, p.type, Len(p.payload)>> \o p.payload

RECURSIVE EncodeAll(_)
EncodeAll(ps) == IF ps = <<>> THEN <<>> ELSE Encode(Head(ps)) \o EncodeAll(Tail(ps))

Packet(type, payload) == [type |-> type, payload |-> payload]

\* a 44-byte sample payload, every byte v
SampleBytes(v) == [i \in 1..SAMPLE_PAYLOAD_SIZE |-> v]

\* the packets the ESP32 is made to send
PacketSet ==
    {Packet(PACKET_TYPE_ACK, <<CMD_IMU, sub, flag>>) :
        sub \in {IMU_SUB_GET_SAMPLE, IMU_SUB_START_CALIB}, flag \in {0, 1}}
    \cup {Packet(PACKET_TYPE_ACK, <<CMD_IMU, IMU_SUB_GET_SAMPLE>>),
          Packet(PACKET_TYPE_STATUS, <<104, 105>>),
          Packet(PACKET_TYPE_STATUS, <<SYNC0, SYNC1, PACKET_TYPE_ACK, 0>>),
          Packet(PACKET_TYPE_STATUS, <<>>),
          Packet(PACKET_TYPE_SAMPLE, SampleBytes(1)),
          Packet(PACKET_TYPE_SAMPLE, SampleBytes(2)),
          Packet(PACKET_TYPE_SAMPLE, <<1, 2, 3, 4>>)}

NoiseBytes == {SYNC0, SYNC1, 0}

SeqsUpTo(S, n) == UNION {[1..k -> S] : k \in 0..n}

\* noise in which no 'I' is immediately followed by 'M'
NoiseSet ==
    {n \in SeqsUpTo(NoiseBytes, MaxNoise) :
        \A i \in 1..(Len(n) - 1) : ~(n[i] = SYNC0 /\ n[i + 1] = SYNC1)}

\* hasLatestImuSample_ / latestImuSample_: nothing yet, or an earlier sample
CacheSet == {[has |-> FALSE, latest |-> <<>>], [has |-> TRUE, latest |-> SampleBytes(9)]}

PktCall(call, noise, packets, cache) ==
    [phase |-> "called", call |-> call, noise |-> noise, packets |-> packets,
     stream |-> noise \o EncodeAll(packets), cache |-> cache]

InitPkt ==
    /\ InitInterp /\ IdleFan /\ IdleHome /\ IdleUart /\ InitInterpState /\ IdleRest
    /\ pkt \in {PktCall("readPacket", n, <<p>>, [has |-> FALSE, latest |-> <<>>]) :
                    n \in NoiseSet, p \in PacketSet}
          \cup {PktCall("getImuSample", <<>>, ps, c) :
                    ps \in SeqsUpTo(PacketSet, MaxPackets), c \in CacheSet}

readPacketCall ==
    /\ pkt.phase = "called" /\ pkt.call = "readPacket"
    /\ pkt' = [phase |-> "returned", call |-> pkt.call, noise |-> pkt.noise,
               packets |-> pkt.packets, stream |-> pkt.stream, cache |-> pkt.cache,
               result |-> readPacket(pkt.stream)]
    /\ UNCHANGED <<abort, tic, periph, pc, commandQueue, executingQueue, cmd, nlines,
                   hist, fan, home, uart, interp, codec, fw, wa>>

getImuSampleCall ==
    /\ pkt.phase = "called" /\ pkt.call = "getImuSample"
    /\ pkt' = [phase |-> "returned", call |-> pkt.call, noise |-> pkt.noise,
               packets |-> pkt.packets, stream |-> pkt.stream, cache |-> pkt.cache,
               result |-> getImuSample(pkt.stream, pkt.cache)]
    /\ UNCHANGED <<abort, tic, periph, pc, commandQueue, executingQueue, cmd, nlines,
                   hist, fan, home, uart, interp, codec, fw, wa>>

NextPkt == readPacketCall \/ getImuSampleCall

SpecPkt == InitPkt /\ [][NextPkt]_vars

\* C11: from noise that nowhere holds 'I' immediately followed by 'M',
\* followed by one valid packet, readPacket returns exactly that packet:
\* same type, length and payload.
C11_SyncRecovery ==
    (pkt.phase = "returned" /\ pkt.call = "readPacket")
        => /\ pkt.result.ok
           /\ pkt.result.type = pkt.packets[1].type
           /\ pkt.result.length = Len(pkt.packets[1].payload)
           /\ pkt.result.payload = pkt.packets[1].payload

\* packets that getImuSample's own loop passes over before a sample
PassedOver(p, cache) ==
    /\ p.type # PACKET_TYPE_SAMPLE
    /\ ~(p.type = PACKET_TYPE_ACK /\ Len(p.payload) >= 3
         /\ p.payload[2] = IMU_SUB_GET_SAMPLE /\ (p.payload[3] = 0 \/ cache.has))

\* index of the 44-byte SAMPLE packet getImuSample parses, 0 if there is none
ParsedSampleAt(ps, cache) ==
    LET I == {i \in 1..Len(ps) :
                /\ ps[i].type = PACKET_TYPE_SAMPLE
                /\ Len(ps[i].payload) = SAMPLE_PAYLOAD_SIZE
                /\ \A k \in 1..(i - 1) : PassedOver(ps[k], cache)}
    IN  IF I = {} THEN 0 ELSE CHOOSE i \in I : TRUE

SampleAckAt(ps, j) ==
    /\ ps[j].type = PACKET_TYPE_ACK
    /\ Len(ps[j].payload) >= 3
    /\ ps[j].payload[2] = IMU_SUB_GET_SAMPLE

\* C12 as stated: once getImuSample has parsed a 44-byte SAMPLE packet it
\* returns success if and only if some ACK for GET_SAMPLE with a non-zero
\* success flag arrives before the deadline.
C12_SuccessIffAckArrives ==
    (pkt.phase = "returned" /\ pkt.call = "getImuSample"
     /\ ParsedSampleAt(pkt.packets, pkt.cache) # 0)
        => LET i == ParsedSampleAt(pkt.packets, pkt.cache)
           IN  pkt.result.ret <=>
                 \E j \in (i + 1)..Len(pkt.packets) :
                    SampleAckAt(pkt.packets, j) /\ pkt.packets[j].payload[3] # 0

\* C12 amended: once getImuSample has parsed a 44-byte SAMPLE packet it
\* returns success if and only if the first ACK for GET_SAMPLE read after it
\* before the deadline carries a non-zero success flag; STATUS packets,
\* further SAMPLE packets and ACKs for other subcommands in between never
\* end the wait.
C12_SuccessIffFirstAck ==
    (pkt.phase = "returned" /\ pkt.call = "getImuSample"
     /\ ParsedSampleAt(pkt.packets, pkt.cache) # 0)
        => LET i == ParsedSampleAt(pkt.packets, pkt.cache)
           IN  pkt.result.ret <=>
                 \E j \in (i + 1)..Len(pkt.packets) :
                    /\ SampleAckAt(pkt.packets, j) /\ pkt.packets[j].payload[3] # 0
                    /\ \A k \in (i + 1)..(j - 1) : ~SampleAckAt(pkt.packets, k)

\* success after a sample, with an ACK for another subcommand in between
C12_Witness ==
    /\ pkt.phase = "returned" /\ pkt.call = "getImuSample" /\ pkt.result.ret
    /\ Len(pkt.packets) = 3
    /\ pkt.packets[1] = Packet(PACKET_TYPE_SAMPLE, SampleBytes(1))
    /\ pkt.packets[2] = Packet(PACKET_TYPE_ACK, <<CMD_IMU, IMU_SUB_START_CALIB, 0>>)
    /\ pkt.result.out = SampleBytes(1)

-----------------------------------------------------------------------------
(* G-code dispatch: the try block of master_queue.cpp:386-751, line by     *)
(* line, on a bus whose writes succeed and with the abort flag down.       *)
(* Numbers are integers; a double that main() casts to int32_t is the      *)
(* integer itself.                                                         *)

\* number of input lines read in one run of the dispatch model
MaxGLines == 2

A_RPM_MIN == 0
A_RPM_MAX == 60
COUNTS_PER_THETA_REV == 245426
LED_DEFAULT_CURRENT_MA == 450
LED_MAX_CURRENT_MA == 30000

\* static_cast<int32_t>((rpm * COUNTS_PER_THETA_REV) / 60.0), rpm >= 0
rpm_to_pps(rpm) == (rpm * COUNTS_PER_THETA_REV) \div 60

(* Tokens of a line after the head.  c0 is the first character in upper    *)
(* case; c1 tells what follows it: "num" a digit or '-', "alpha" a letter  *)
(* (kept in ax), "none" nothing; hasv tells whether std::stod succeeds on  *)
(* the characters after c0 (after ax when c1 = "alpha"), v is its result.  *)
NumTok(k, v) == [c0 |-> k, c1 |-> "num", ax |-> "-", hasv |-> TRUE, v |-> v]
LetterTok(k) == [c0 |-> k, c1 |-> "none", ax |-> "-", hasv |-> FALSE, v |-> 0]
(* Numbers are doubles in the program and integers here.  One value below  *)
(* every number of the model stands for the not-a-number std::stod returns *)
(* for the text "nan"; an ordered comparison with it is false.             *)
NaN == -2147483647 - 1

isnan(v) == v = NaN

FLess(a, b) == ~isnan(a) /\ ~isnan(b) /\ a < b

\* v < lo || v > hi
OutOfRange(v, lo, hi) == FLess(v, lo) \/ FLess(hi, v)

AxisNumTok(k, a, v) == [c0 |-> k, c1 |-> "alpha", ax |-> a, hasv |-> TRUE, v |-> v]
AxisTok(k, a) == [c0 |-> k, c1 |-> "alpha", ax |-> a, hasv |-> FALSE, v |-> 0]

\* a line: its text, head[0], whether std::stoi(head.substr(1)) succeeds and
\* its result, and the tokens that follow the head
GLine(text, h, hasnum, num, toks) ==
    [text |-> text, head |-> h, hasnum |-> hasnum, num |-> num, toks |-> toks]

MLines ==
    {GLine("M17", "M", TRUE, 17, <<>>),
     GLine("M18", "M", TRUE, 18, <<>>),
     GLine("M18 Z", "M", TRUE, 18, <<LetterTok("Z")>>),
     GLine("M30", "M", TRUE, 30, <<>>),
     GLine("M112", "M", TRUE, 112, <<>>),
     GLine("M205 S450", "M", TRUE, 205, <<NumTok("S", 450)>>),
     GLine("M205 S-1", "M", TRUE, 205, <<NumTok("S", -1)>>),
     GLine("M205 S30001", "M", TRUE, 205, <<NumTok("S", 30001)>>),
     GLine("M999", "M", TRUE, 999, <<>>),
     GLine("M", "M", FALSE, 0, <<>>)}

OtherHeadLines ==
    {GLine("X1", "X", TRUE, 1, <<>>),
     GLine("F5000", "F", TRUE, 5000, <<>>),
     GLine("FR500000", "F", FALSE, 0, <<>>),
     GLine("FA 75", "F", FALSE, 0, <<NumTok("7", 5)>>)}

MoveLines ==
    {GLine("G1 R5", "G", TRUE, 1, <<NumTok("R", 5)>>),
     GLine("G1 Z5", "G", TRUE, 1, <<NumTok("Z", 5)>>),
     GLine("G0 Z5", "G", TRUE, 0, <<NumTok("Z", 5)>>),
     GLine("G1 R", "G", TRUE, 1, <<LetterTok("R")>>),
     GLine("G1 FR0 R5", "G", TRUE, 1, <<AxisNumTok("F", "R", 0), NumTok("R", 5)>>),
     GLine("G1 F-1 R5", "G", TRUE, 1, <<NumTok("F", -1), NumTok("R", 5)>>),
     GLine("G1 F500000000 Z5", "G", TRUE, 1, <<NumTok("F", 500000000), NumTok("Z", 5)>>),
     GLine("G1 FR500000 R5", "G", TRUE, 1, <<AxisNumTok("F", "R", 500000), NumTok("R", 5)>>)}

FeedLines ==
    {GLine("G1 F500000000", "G", TRUE, 1, <<NumTok("F", 500000000)>>),
     GLine("G1 F-1", "G", TRUE, 1, <<NumTok("F", -1)>>),
     GLine("G1 FR-1", "G", TRUE, 1, <<AxisNumTok("F", "R", -1)>>),
     GLine("G1 FZ105000001", "G", TRUE, 1, <<AxisNumTok("F", "Z", 105000001)>>),
     GLine("G1 FA75", "G", TRUE, 1, <<AxisNumTok("F", "A", 75)>>),
     GLine("G1 FA 75", "G", TRUE, 1, <<AxisTok("F", "A"), NumTok("7", 5)>>),
     GLine("G1 FA-1", "G", TRUE, 1, <<AxisNumTok("F", "A", -1)>>),
     GLine("G1 FA60", "G", TRUE, 1, <<AxisNumTok("F", "A", 60)>>),
     GLine("G1 FAnan", "G", TRUE, 1, <<AxisNumTok("F", "A", NaN)>>)}

OtherGLines ==
    {GLine("G33 A61", "G", TRUE, 33, <<NumTok("A", 61)>>),
     GLine("G33 A-1", "G", TRUE, 33, <<NumTok("A", -1)>>),
     GLine("G33 A30", "G", TRUE, 33, <<NumTok("A", 30)>>),
     GLine("G90", "G", TRUE, 90, <<>>),
     GLine("G91", "G", TRUE, 91, <<>>),
     GLine("G92", "G", TRUE, 92, <<>>),
     GLine("G92 R", "G", TRUE, 92, <<LetterTok("R")>>),
     GLine("G92 R0", "G", TRUE, 92, <<NumTok("R", 0)>>),
     GLine("G92 T0 Z0", "G", TRUE, 92, <<NumTok("T", 0), NumTok("Z", 0)>>),
     GLine("G28", "G", TRUE, 28, <<>>),
     GLine("G99", "G", TRUE, 99, <<>>),
     GLine("G", "G", FALSE, 0, <<>>)}

GLineSet == MLines \cup OtherHeadLines \cup MoveLines \cup FeedLines \cup OtherGLines

\* parse_param: the key, and a value when the token is longer than one
\* character and std::stod succeeds
parse_param(tok) == [ok |-> tok.c1 = "num" /\ tok.hasv, key |-> tok.c0, value |-> tok.v]

\* F_axis[ax] = v (operator[] inserts a missing key)
SetFeed(F, ax, v) == [a \in DOMAIN F \cup {ax} |-> IF a = ax THEN v ELSE F[a]]

Say(acc, msg) == [acc EXCEPT !.msgs = Append(@, msg)]

\* one token of a G line (lines 536-587): F-words change the feeds, every
\* other token is a key/value parameter or is ignored
ParseToken(acc, tok) ==
    IF tok.c0 = "F"
    THEN IF tok.c1 = "num"
         THEN IF tok.hasv
              THEN Say([acc EXCEPT !.F_global = tok.v,
                            !.F_axis = SetFeed(SetFeed(SetFeed(@, "Z", tok.v), "T", tok.v),
                                               "R", tok.v)],
                       "F: Global feed set")
              ELSE Say(acc, "Ignoring invalid F token")
         ELSE IF tok.c1 = "alpha"
         THEN LET fv == IF tok.hasv THEN tok.v ELSE 0
              IN  IF tok.ax = "A"
                  THEN IF OutOfRange(fv, A_RPM_MIN, A_RPM_MAX)
                       THEN Say(acc, "[RANGE] FA")
                       ELSE Say([acc EXCEPT !.F_axis = SetFeed(@, "A", fv)],
                                "FA: rotation feed set")
                  ELSE IF OutOfRange(fv, 0, axis_max_speed(tok.ax))
                       THEN Say(acc, "[RANGE] F<axis>")
                       ELSE Say([acc EXCEPT !.F_axis = SetFeed(@, tok.ax, fv)],
                                "F<axis>: feed set")
         ELSE Say(acc, "Ignoring malformed F token")
    ELSE IF parse_param(tok).ok
         THEN [acc EXCEPT !.params = Append(@, [k |-> tok.c0, v |-> tok.v])]
         ELSE Say(acc, "Ignoring token")

RECURSIVE ParseTokens(_, _)
ParseTokens(acc, toks) ==
    IF toks = <<>> THEN acc ELSE ParseTokens(ParseToken(acc, Head(toks)), Tail(toks))

\* for (auto& kv : params) if (kv.first == k) ...: the last value wins
HasParam(params, k) == \E i \in 1..Len(params) : params[i].k = k

ParamVal(params, k) ==
    LET I == {i \in 1..Len(params) : params[i].k = k}
    IN  params[CHOOSE i \in I : \A j \in I : j <= i].v

\* a variant that takes every position for 0
get_axis_pos_zero(t, axis, rdFail) == 0

\* get_axis_pos(axis): the representative's current position, 0 when the
\* read throws; rdFail is the set of axes whose read fails
get_axis_pos(t, axis, rdFail) ==
    IF axis \in rdFail THEN 0 ELSE t[rep_ctrl_for(axis)].pos

\* absolute_mode ? (int32_t)v : get_axis_pos(axis) + (int32_t)v
AxisTarget(mode, t, axis, v, rdFail) ==
    IF mode THEN v ELSE get_axis_pos(t, axis, rdFail) + v

\* a variant that applies any feed
apply_any_axis_speed(F, axis) == "ok"

\* try_apply_axis_speed: which of its three exits is taken
try_apply_axis_speed(F, axis) ==
    IF F[axis] < 0 \/ F[axis] > axis_max_speed(axis) THEN "[RANGE]"
    ELSE IF F[axis] = 0 THEN "[WARN]"
    ELSE "ok"

\* move_axis with the feeds in force: bus writes and messages
MoveAxis(acc, axis, target) ==
    LET grp == GroupOf(axis)
        feed == try_apply_axis_speed(acc.F_axis, axis)
    IN  IF feed = "ok"
        THEN [acc EXCEPT
                !.bus = @ \o ensure_ready(grp)
                          \o AxisGroupCall(grp, "setMaxSpeed", acc.F_axis[axis])
                          \o AxisGroupCall(grp, "setTargetPosition", target),
                !.msgs = Append(@, "[CMD]")]
        ELSE [acc EXCEPT !.bus = @ \o ensure_ready(grp),
                         !.msgs = @ \o <<feed, "[SKIP]">>]

\* the G0 block of one axis: rapid at the axis cap
RapidAxis(acc, axis, target) ==
    LET grp == GroupOf(axis)
    IN  [acc EXCEPT
            !.bus = @ \o ensure_ready(grp)
                      \o AxisGroupCall(grp, "setMaxSpeed", axis_max_speed(axis))
                      \o AxisGroupCall(grp, "setTargetPosition", target),
            !.msgs = Append(@, "[G0]")]

\* G0 and G1: R, then T, then Z, each if named
RECURSIVE MoveAxes(_, _, _, _, _)
MoveAxes(acc, gnum, axes, t, rdFail) ==
    IF axes = <<>> THEN acc
    ELSE LET axis == Head(axes)
             target == AxisTarget(acc.absolute_mode, t, axis,
                                  ParamVal(acc.params, axis), rdFail)
             next == IF ~HasParam(acc.params, axis) THEN acc
                     ELSE IF gnum = 0 THEN RapidAxis(acc, axis, target)
                     ELSE MoveAxis(acc, axis, target)
         IN  MoveAxes(next, gnum, Tail(axes), t, rdFail)

\* set_axis_zero(axis)
set_axis_zero(axis) == AxisGroupCall(GroupOf(axis), "haltAndSetPosition", 0)

\* G92: every R, T or Z parameter in the order given; all three when the
\* line has no such parameter
RECURSIVE ZeroNamed(_)
ZeroNamed(params) ==
    IF params = <<>> THEN <<>>
    ELSE (IF Head(params).k \in {"R", "T", "Z"} THEN set_axis_zero(Head(params).k)
          ELSE <<>>) \o ZeroNamed(Tail(params))

G92Calls(params) ==
    IF \E i \in 1..Len(params) : params[i].k \in {"R", "T", "Z"}
    THEN ZeroNamed(params)
    ELSE set_axis_zero("R") \o set_axis_zero("T") \o set_axis_zero("Z")

\* the writes of one zeroAxisPair call that runs to its end
\* (HeliCalHelper.cpp:80-81 and 91-92, 105-108 and 120-123)
zeroAxisPairCalls(grp, homeDir, finalOffset) ==
    AxisGroupCall(grp, "goHome", homeDir)
    \o AxisGroupCall(grp, "setTargetPosition", finalOffset)

\* G28: the three caps, then R, T and Z are homed in turn (lines 695-704)
G28Calls ==
    AxisGroupCall(AX_R, "setMaxSpeed", axis_max_speed("R"))
    \o AxisGroupCall(AX_T, "setMaxSpeed", axis_max_speed("T"))
    \o AxisGroupCall(AX_Z, "setMaxSpeed", axis_max_speed("Z"))
    \o zeroAxisPairCalls(AX_R, HOME_DIR_R, HOME_OFF_R)
    \o zeroAxisPairCalls(AX_T, HOME_DIR_T, HOME_OFF_T)
    \o zeroAxisPairCalls(AX_Z, HOME_DIR_Z, HOME_OFF_Z)

(* The drivers when zeroAxisPair returns: every homing run has ended at    *)
(* position 0 and the move to the final offset has come within one pulse   *)
(* of it (near = 1) or has reached it (near = 0).                          *)
Homed(t, near) ==
    [m \in Tics |->
        IF t[m].homing
        THEN [t[m] EXCEPT !.homing = FALSE,
                          !.pos = IF t[m].tgt < 0 THEN t[m].tgt + near
                                  ELSE IF t[m].tgt > 0 THEN t[m].tgt - near
                                  ELSE 0]
        ELSE t[m]]

\* parse_axis_args: every R, T, Z or A among the characters of the tokens
RECURSIVE parse_axis_args(_)
parse_axis_args(toks) ==
    IF toks = <<>> THEN <<>>
    ELSE LET tok == Head(toks)
         IN  (IF tok.c0 \in {"R", "T", "Z", "A"} THEN <<tok.c0>> ELSE <<>>)
             \o (IF tok.ax \in {"R", "T", "Z", "A"} THEN <<tok.ax>> ELSE <<>>)
             \o parse_axis_args(Tail(toks))

\* motors_disable(axes): the bus writes; theta velocity 0 follows them
RECURSIVE DisableEach(_)
DisableEach(axes) ==
    IF axes = <<>> THEN <<>>
    ELSE (IF Head(axes) \in {"R", "T", "Z"} THEN disable_axis(Head(axes)) ELSE <<>>)
         \o DisableEach(Tail(axes))

motors_disable(axes) ==
    IF axes = <<>> THEN motors_disable_default ELSE DisableEach(axes)

\* M205: the last S token gives the current, -1 when it has no number
RECURSIVE M205Current(_, _)
M205Current(toks, cur) ==
    IF toks = <<>> THEN cur
    ELSE M205Current(Tail(toks),
            IF Head(toks).c0 = "S"
            THEN (IF Head(toks).c1 = "num" /\ Head(toks).hasv THEN Head(toks).v ELSE -1)
            ELSE cur)

LedOp(op, val) == [op |-> op, val |-> val]

\* the catch of line 747 stops the program
CatchExits == "exit"

\* the catch of line 747 prints the error; control goes on to the wait loop
CatchEnd == "wait"

\* a dispatch that has done nothing yet: feeds and mode as they are
Fresh(st) ==
    [absolute_mode |-> st.absolute_mode, F_global |-> st.F_global, F_axis |-> st.F_axis,
     params |-> <<>>, bus |-> <<>>, theta |-> <<>>, led |-> <<>>, dlp |-> <<>>,
     msgs |-> <<>>, end |-> "wait"]

\* the M-code switch of lines 410-523
MCode(st, l) ==
    LET acc == Fresh(st)
        go == [acc EXCEPT !.end = "continue"]
        cur == M205Current(l.toks, -1)
    IN  IF ~l.hasnum THEN [acc EXCEPT !.msgs = <<"!! ERROR">>, !.end = CatchEnd]
        ELSE CASE l.num = 17 -> [go EXCEPT !.bus = motors_enable, !.msgs = <<"M17">>]
               [] l.num = 18 ->
                    [go EXCEPT !.bus = motors_disable(parse_axis_args(l.toks)),
                               !.theta = <<0>>, !.msgs = <<"M18">>]
               [] l.num = 112 ->
                    [acc EXCEPT !.bus = motors_disable(<<"R", "T", "Z">>),
                                !.theta = <<0>>, !.dlp = <<"powerdown">>,
                                !.led = <<LedOp("stop", 0)>>,
                                !.msgs = <<"M112">>, !.end = "exit"]
               [] l.num = 30 ->
                    [acc EXCEPT !.bus = motors_disable(<<>>),
                                !.theta = <<0>>, !.dlp = <<"powerdown">>,
                                !.led = <<LedOp("stop", 0)>>,
                                !.msgs = <<"M30">>, !.end = "exit"]
               [] l.num = 205 ->
                    IF cur < 0 THEN [go EXCEPT !.msgs = <<"M205: Provide current">>]
                    ELSE IF cur > LED_MAX_CURRENT_MA
                    THEN [go EXCEPT !.msgs = <<"M205: exceeds limit">>]
                    ELSE [go EXCEPT !.led = <<LedOp("current", cur)>>,
                                    !.msgs = <<"M205">>]
               [] OTHER -> [go EXCEPT !.msgs = <<"Unknown M">>]

\* the G-code part, lines 531-746
GCode(st, l, t, rdFail) ==
    LET acc == ParseTokens(Fresh(st), l.toks)
        rpm == IF HasParam(acc.params, "A") THEN ParamVal(acc.params, "A") ELSE 0
    IN  IF ~l.hasnum THEN [Fresh(st) EXCEPT !.msgs = <<"!! ERROR">>, !.end = CatchEnd]
        ELSE CASE l.num \in {0, 1} -> MoveAxes(acc, l.num, <<"R", "T", "Z">>, t, rdFail)
               [] l.num = 28 -> Say([acc EXCEPT !.bus = G28Calls], "G28")
               [] l.num = 33 ->
                    IF OutOfRange(rpm, A_RPM_MIN, A_RPM_MAX)
                    THEN Say(acc, "[RANGE] G33 A")
                    ELSE Say([acc EXCEPT !.theta = <<rpm_to_pps(rpm)>>,
                                         !.F_axis = SetFeed(@, "A", rpm)], "G33")
               [] l.num = 90 -> Say([acc EXCEPT !.absolute_mode = TRUE], "G90")
               [] l.num = 91 -> Say([acc EXCEPT !.absolute_mode = FALSE], "G91")
               [] l.num = 92 -> Say([acc EXCEPT !.bus = G92Calls(acc.params)], "G92")
               [] OTHER -> Say(acc, "Unknown/unsupported G")

\* the whole try block for one line
DispatchLine(st, l, t, rdFail) ==
    IF l.head = "M" THEN MCode(st, l)
    ELSE IF l.head # "G"
    THEN [Fresh(st) EXCEPT !.msgs = <<"Unknown command head">>, !.end = "continue"]
    ELSE GCode(st, l, t, rdFail)

\* the axes whose position the line reads for relative targets
AxesRead(st, l) ==
    IF l.head = "G" /\ l.hasnum /\ l.num \in {0, 1} /\ ~st.absolute_mode
    THEN {a \in {"R", "T", "Z"} : HasParam(ParseTokens(Fresh(st), l.toks).params, a)}
    ELSE {}

\* what the serial link, the projector and the LED were told
ApplyPeriph(p, d) ==
    LET leds == {i \in 1..Len(d.led) : d.led[i].op \in {"start", "stop"}}
    IN  [thetaSent |-> p.thetaSent \/ d.theta # <<>>,
         theta |-> IF d.theta # <<>> THEN d.theta[Len(d.theta)] ELSE p.theta,
         video |-> IF d.dlp # <<>> THEN d.dlp[Len(d.dlp)] ELSE p.video,
         led |-> IF leds = {} THEN p.led
                 ELSE IF d.led[CHOOSE i \in leds : \A j \in leds : j <= i].op = "stop"
                      THEN "stopped" ELSE "on"]

RepPos(t) == [a \in {"R", "T", "Z"} |-> t[rep_ctrl_for(a)].pos]

\* the dispatch model starts like main() after homing, in either positioning
\* mode (G91 and G90 switch between them)
InitG ==
    /\ InitInterp /\ IdleFan /\ IdleHome /\ IdleUart /\ IdlePkt /\ IdleRest
    /\ interp \in {InterpAtStart(mode) : mode \in BOOLEAN}

\* getline succeeds and the drain starts (lines 358-366)
GReadLine ==
    /\ pc = "prompt"
    /\ nlines < MaxGLines
    /\ \E l \in GLineSet :
        commandQueue' = Append(commandQueue,
            [id |-> nlines + 1, text |-> l.text, head |-> l.head,
             hasnum |-> l.hasnum, num |-> l.num, toks |-> l.toks])
    /\ nlines' = nlines + 1
    /\ executingQueue' = TRUE
    /\ pc' = "loop_top"
    /\ UNCHANGED <<abort, tic, periph, cmd, hist, fan, home, uart, pkt, interp, codec, fw, wa>>

\* the try block for the line taken from the queue
GDispatch ==
    /\ pc = "dispatch"
    /\ ~abort_requested
    /\ \E rdFail \in SUBSET AxesRead(interp, cmd) :
        LET d == DispatchLine(interp, cmd, tic, rdFail)
            homes == \E i \in 1..Len(d.bus) : d.bus[i].op = "goHome"
        IN  /\ \E near \in (IF homes THEN {0, 1} ELSE {0}) :
                    tic' = Homed(ApplyCalls(tic, d.bus), near)
            /\ periph' = ApplyPeriph(periph, d)
            /\ interp' = [absolute_mode |-> d.absolute_mode, F_global |-> d.F_global,
                          F_axis |-> d.F_axis,
                          last |-> [id |-> cmd.id, text |-> cmd.text,
                                    after |-> interp.last.text,
                                    pre |-> [absolute_mode |-> interp.absolute_mode,
                                             F_global |-> interp.F_global,
                                             F_axis |-> interp.F_axis,
                                             pos |-> RepPos(tic)],
                                    rdFail |-> rdFail, bus |-> d.bus, theta |-> d.theta,
                                    led |-> d.led, dlp |-> d.dlp, msgs |-> d.msgs,
                                    end |-> d.end]]
            /\ pc' = CASE d.end = "continue" -> "loop_top"
                       [] d.end = "wait" -> "wait"
                       [] d.end = "exit" -> "exited"
    /\ UNCHANGED <<abort, commandQueue, executingQueue, cmd, nlines, hist,
                   fan, home, uart, pkt, codec, fw, wa>>

\* the wait loop finds every representative at its target (lines 755-757, 788)
GWaitDone ==
    /\ pc = "wait"
    /\ ~RepMoving(tic)
    /\ pc' = "loop_top"
    /\ UNCHANGED <<abort, tic, periph, commandQueue, executingQueue, cmd, nlines, hist,
                   fan, home, uart, pkt, interp, codec, fw, wa>>

\* space bars counted while the queue is executed
MaxKeys == 1

(* A space typed while the queue is executed.  main() never calls          *)
(* init_key_listener, so no thread reads single keys: the terminal keeps   *)
(* the character for the next getline, and no flag is written.             *)
KeyPressSpace ==
    /\ pc \in {"loop_top", "dispatch", "wait"}
    /\ executingQueue
    /\ hist.spaces < MaxKeys
    /\ hist' = [hist EXCEPT !.spaces = @ + 1]
    /\ UNCHANGED <<abort, tic, periph, pc, commandQueue, executingQueue, cmd, nlines,
                   fan, home, uart, pkt, interp, codec, fw, wa>>

NextG ==
    \/ GReadLine
    \/ KeyPressSpace
    \/ Dequeue
    \/ GDispatch
    \/ GWaitDone
    \/ MotorStep
    \/ LoopExit
    \/ EndOfInput

SpecG == InitG /\ [][NextG]_vars

-----------------------------------------------------------------------------
(* Claims about the dispatch of single lines *)

\* the record of the line dispatched last, once there is one
Last == interp.last

JustDispatched(texts) == Last.id # 0 /\ Last.text \in texts

FeedsKept ==
    /\ interp.absolute_mode = Last.pre.absolute_mode
    /\ interp.F_global = Last.pre.F_global
    /\ interp.F_axis = Last.pre.F_axis

\* the drivers that were sent op in the last dispatch
SentTo(op) == {Last.bus[i].m : i \in {j \in 1..Len(Last.bus) : Last.bus[j].op = op}}

\* the drivers of the named axes
MembersOf(axes) ==
    {m \in Tics : \E a \in axes : \E i \in 1..Len(GroupOf(a)) : GroupOf(a)[i] = m}

\* C13: the normal end of input, M30 and M112 all end the program with theta
\* velocity 0 sent, the projector powered down, the LED stopped and every one
\* of the 8 drivers de-energized.
C13_SameShutdown ==
    pc = "exited" =>
        /\ periph.thetaSent /\ periph.theta = 0
        /\ periph.video = "powerdown"
        /\ periph.led = "stopped"
        /\ \A m \in Tics : ~tic[m].energized

\* C14: `FA 75`, and any per-axis A feed word whose value is outside [0,60],
\* leaves the stored A feed as it was before the line.
C14_AFeedRetained ==
    JustDispatched({"FA 75", "G1 FA75", "G1 FA 75", "G1 FA-1"})
        => interp.F_axis["A"] = Last.pre.F_axis["A"]

\* C15: a line whose head is an F-word is a feed command: F5000 sets the
\* global feed and the R, T and Z feeds, FR500000 sets the R feed, and
\* neither is reported as an unknown command.
C15_FHeadAccepted ==
    /\ JustDispatched({"F5000", "FR500000"})
            => \A i \in 1..Len(Last.msgs) : Last.msgs[i] # "Unknown command head"
    /\ JustDispatched({"F5000"})
            => /\ interp.F_global = 5000
               /\ \A a \in {"R", "T", "Z"} : interp.F_axis[a] = 5000
    /\ JustDispatched({"FR500000"}) => interp.F_axis["R"] = 500000

\* C16: a global or per-axis feed above the cap or negative, a G33 A outside
\* [0,60] and an M205 S outside 0..30000 change neither the mode nor any
\* feed and send nothing to a driver, the serial link or the LED.
C16_OutOfRangeRejected ==
    JustDispatched({"G1 F500000000", "G1 F-1", "G1 FR-1", "G1 FZ105000001",
                    "G1 FA75", "G1 FA-1", "G33 A61", "G33 A-1",
                    "M205 S-1", "M205 S30001"})
        => /\ FeedsKept
           /\ Last.bus = <<>> /\ Last.theta = <<>> /\ Last.led = <<>>

\* the axis a G1 line of the model moves
MovedAxis(text) == IF text \in {"G1 Z5", "G0 Z5", "G1 F500000000 Z5"} THEN "Z" ELSE "R"

\* C17: a G1 move on an axis whose feed is 0, negative or above the cap sends
\* setTargetPosition to no member of that group, is reported with a warning
\* and not as an error, and the queue goes on: the wait loop that follows
\* has nothing to wait for and the program does not stop.
C17_BadFeedSkipsMove ==
    (JustDispatched({"G1 FR0 R5", "G1 F-1 R5", "G1 F500000000 Z5"})
     /\ (interp.F_axis[MovedAxis(Last.text)] <= 0
         \/ interp.F_axis[MovedAxis(Last.text)] > axis_max_speed(MovedAxis(Last.text))))
        => /\ SentTo("setTargetPosition") = {}
           /\ \E i \in 1..Len(Last.msgs) : Last.msgs[i] = "[SKIP]"
           /\ \E i \in 1..Len(Last.msgs) : Last.msgs[i] \in {"[WARN]", "[RANGE]"}
           /\ \A i \in 1..Len(Last.msgs) : Last.msgs[i] # "!! ERROR"
           /\ Last.end = "wait"
           /\ pc = "wait" => ~RepMoving(tic)
           /\ pc \in {"wait", "loop_top", "prompt"} => hist.dispatched[Len(hist.dispatched)] = Last.id

\* a move was dispatched right after a move skipped for its feed
C17_Witness ==
    /\ Last.id = 2 /\ Last.after = "G1 FR0 R5" /\ Last.text = "G1 Z5"
    /\ SentTo("setTargetPosition") = MembersOf({"Z"})

\* the targets sent in the last dispatch
TargetsSent ==
    {Last.bus[i].val : i \in {j \in 1..Len(Last.bus) : Last.bus[j].op = "setTargetPosition"}}

\* C18: in relative mode the target sent by G0/G1 for a named axis is the
\* position read from the axis's representative at dispatch plus the given
\* value; in absolute mode it is the given value.
C18_RelativeTargets ==
    JustDispatched({"G1 R5", "G1 Z5", "G0 Z5", "G1 FR500000 R5"})
        => LET axis == MovedAxis(Last.text)
               feedOk == \/ Last.text = "G0 Z5"
                         \/ /\ interp.F_axis[axis] > 0
                            /\ interp.F_axis[axis] <= axis_max_speed(axis)
           IN  /\ feedOk => SentTo("setTargetPosition") = MembersOf({axis})
               /\ Last.pre.absolute_mode => TargetsSent \subseteq {5}
               /\ (~Last.pre.absolute_mode /\ axis \notin Last.rdFail)
                    => TargetsSent \subseteq {Last.pre.pos[axis] + 5}

\* the second of two successive relative `G1 Z5`: its target is 5 beyond the
\* first one's
C18_Witness ==
    /\ Last.id = 2 /\ Last.text = "G1 Z5" /\ Last.after = "G1 Z5"
    /\ ~Last.pre.absolute_mode /\ Last.rdFail = {}
    /\ Last.pre.pos["Z"] = HOME_OFF_Z + 5
    /\ TargetsSent = {HOME_OFF_Z + 10}

\* C19: G92 followed by axis letters zeroes exactly the named axes; only a
\* G92 that names no axis zeroes R, T and Z.
C19_G92NamedOnly ==
    /\ JustDispatched({"G92 R", "G92 R0"}) => SentTo("haltAndSetPosition") = MembersOf({"R"})
    /\ JustDispatched({"G92 T0 Z0"}) => SentTo("haltAndSetPosition") = MembersOf({"T", "Z"})
    /\ JustDispatched({"G92"}) => SentTo("haltAndSetPosition") = Tics

-----------------------------------------------------------------------------
(* Encodings on the two links: the driver frame of TicController::writeCommand *)
(* (TicController.cpp:66-83), the fixed serial command of Esp32UART            *)
(* (Esp32UART.cpp:59-65, 141-152), the current-limit code computed at driver   *)
(* construction (TicController.cpp:28-59) and the rotation velocity of G33     *)
(* (master_queue.cpp:35-37, 707-721).  Each action is one call; codec keeps    *)
(* the arguments and the bytes written.                                        *)

Int32Max == 2147483647
Int32Min == -Int32Max - 1

\* arguments tried for an int32_t parameter
Int32Samples ==
    {Int32Min, -16777217, -16777216, -65536, -256, -255, -1, 0, 1, 127, 128,
     255, 256, 65535, 65536, 16777215, 16777216, 305419896, Int32Max}

\* every value of a uint8_t command
Opcodes == 0..255

\* values tried for a uint8_t subcommand or value
ByteSamples == {0, 1, 2, 3, 4, 16, 32, 48, 64, 80, 127, 128, 255}

CMD_THETA_VEL == 48
THETA_VEL_SET == 1

\* uint8_t buffer[6] = {command, subcommand, value, 0, 0, 0}
uartCommandFrame(command, subcommand, value) ==
    <<command, subcommand, value, 0, 0, 0>>

\* the six bytes setThetaVelocity writes
setThetaVelocityFrame(velocity) ==
    <<CMD_THETA_VEL, THETA_VEL_SET, ByteOf(velocity, 0), ByteOf(velocity, 1),
      ByteOf(velocity, 2), ByteOf(velocity, 3)>>

STEPPER_Z_STEPMODE == 7
STEPPER_RT_STEPMODE == 4
STEPPER_Z_MAXACCELERATION == 2560000
STEPPER_RT_MAXACCELERATION == 320000
TIC_CURRENT_FULL_SCALE_MA == 9095
TIC_CURRENT_CODE_MAX == 127
UInt8Max == 255

\* n/d rounded to the nearest integer, halves away from zero (n >= 0, d > 0)
RoundDiv(n, d) == (2 * n + d) \div (2 * d)

\* (mA / 9095.0) * 127 with the fraction dropped, mA >= 0
CurrentScaled(mA) ==
    (mA \div TIC_CURRENT_FULL_SCALE_MA) * TIC_CURRENT_CODE_MAX
    + ((mA % TIC_CURRENT_FULL_SCALE_MA) * TIC_CURRENT_CODE_MAX)
          \div TIC_CURRENT_FULL_SCALE_MA

current_value_rounded(mA) ==
    {RoundDiv(mA * TIC_CURRENT_CODE_MAX, TIC_CURRENT_FULL_SCALE_MA)}

(* static_cast<uint8_t>((max_current_mA / 9095.0) * 127): the values the    *)
(* conversion can produce.  A double whose integer part does not fit in    *)
(* uint8_t has no defined conversion: any byte may result.                 *)
current_value(mA) ==
    IF CurrentScaled(mA) <= UInt8Max THEN {CurrentScaled(mA)} ELSE 0..UInt8Max

\* max_current_mA values tried at construction
MaSamples ==
    {0, 1, 71, 72, 107, 108, 500, 1000, 2000, 4547, 4548, 9059, 9060, 9095,
     9096, 9166, 9167, 10000, 18333, 18334, 30000}

\* step_mode and the acceleration that goes with it in the callers
StepModes == {STEPPER_RT_STEPMODE, STEPPER_Z_STEPMODE, 10}

AccelOf(mode) ==
    IF mode = STEPPER_RT_STEPMODE THEN STEPPER_RT_MAXACCELERATION
    ELSE STEPPER_Z_MAXACCELERATION

\* the frames the configuring constructor writes, in order
ConstructorFrames(mode, vel, code) ==
    <<writeCommandFrame(OpCode("setStepMode"), mode),
      writeCommandFrame(OpCode("setMaxAcceleration"), AccelOf(mode)),
      writeCommandFrame(OpCode("setMaxDeceleration"), AccelOf(mode)),
      writeCommandFrame(OpCode("setMaxSpeed"), vel),
      writeCommandFrame(OpCode("setCurrentLimit"), code)>>

InitCodec ==
    /\ InitInterp /\ IdleFan /\ IdleHome /\ IdleUart /\ IdlePkt
    /\ InitInterpState /\ IdleCodec /\ IdleFw /\ IdleWa

\* TicController::writeCommand(command, value)
TicWriteCommand ==
    /\ IdleCodec
    /\ \E command \in Opcodes, value \in Int32Samples :
            codec' = [kind |-> "tic", command |-> command, value |-> value,
                      frames |-> <<writeCommandFrame(command, value)>>]
    /\ UNCHANGED <<abort, tic, periph, pc, commandQueue, executingQueue, cmd, nlines,
                   hist, fan, home, uart, pkt, interp, fw, wa>>

\* Esp32UART::writeCommand(command, subcommand, value)
UartWriteCommand ==
    /\ IdleCodec
    /\ \E command \in ByteSamples, subcommand \in ByteSamples, value \in ByteSamples :
            codec' = [kind |-> "uart", command |-> command, sub |-> subcommand,
                      value |-> value,
                      frames |-> <<uartCommandFrame(command, subcommand, value)>>]
    /\ UNCHANGED <<abort, tic, periph, pc, commandQueue, executingQueue, cmd, nlines,
                   hist, fan, home, uart, pkt, interp, fw, wa>>

\* Esp32UART::setThetaVelocity(velocity)
SetThetaVelocity ==
    /\ IdleCodec
    /\ \E velocity \in Int32Samples :
            codec' = [kind |-> "vel", velocity |-> velocity,
                      frames |-> <<setThetaVelocityFrame(velocity)>>]
    /\ UNCHANGED <<abort, tic, periph, pc, commandQueue, executingQueue, cmd, nlines,
                   hist, fan, home, uart, pkt, interp, fw, wa>>

\* the configuring constructor; a step mode above 9 throws before any write
TicConstruct ==
    /\ IdleCodec
    /\ \E mode \in StepModes,
          vel \in {STEPPER_Z_MAXVELOCITY, STEPPER_RT_MAXVELOCITY},
          mA \in MaSamples :
        \E code \in current_value(mA) :
            codec' = [kind |-> "ctor", mode |-> mode, mA |-> mA,
                      threw |-> (mode > 9),
                      frames |-> IF mode > 9 THEN <<>>
                                 ELSE ConstructorFrames(mode, vel, code)]
    /\ UNCHANGED <<abort, tic, periph, pc, commandQueue, executingQueue, cmd, nlines,
                   hist, fan, home, uart, pkt, interp, fw, wa>>

\* rpm values tried for G33 A<rpm>
RpmSamples == (A_RPM_MIN - 1)..(A_RPM_MAX + 1)

\* case 33 of the G switch: range test, conversion, serial command
G33Rotation ==
    /\ IdleCodec
    /\ \E rpm \in RpmSamples :
            codec' = [kind |-> "g33", rpm |-> rpm,
                      accepted |-> ~(rpm < A_RPM_MIN \/ rpm > A_RPM_MAX),
                      frames |-> IF rpm < A_RPM_MIN \/ rpm > A_RPM_MAX THEN <<>>
                                 ELSE <<setThetaVelocityFrame(rpm_to_pps(rpm))>>]
    /\ UNCHANGED <<abort, tic, periph, pc, commandQueue, executingQueue, cmd, nlines,
                   hist, fan, home, uart, pkt, interp, fw, wa>>

\* the call returns; the next one starts from scratch
CodecReturn ==
    /\ ~IdleCodec
    /\ codec' = [kind |-> "idle", frames |-> <<>>]
    /\ UNCHANGED <<abort, tic, periph, pc, commandQueue, executingQueue, cmd, nlines,
                   hist, fan, home, uart, pkt, interp, fw, wa>>

\* the operations that take no argument: writeCommand(opcode), value 0
NoArgOps == {"exitSafeStart", "enterSafeStart", "resetCommandTimeout", "deenergize",
             "energize", "reset", "clearDriverError", "haltAndHold"}

\* the operations that pass their argument on
ArgOps == {"setTargetPosition", "setTargetVelocity", "haltAndSetPosition", "goHome",
           "setMaxSpeed", "setStartingSpeed", "setMaxAcceleration",
           "setMaxDeceleration", "setStepMode", "setCurrentLimit", "setDecayMode",
           "setAGCOption", "setCommandTimeout"}

\* the value an operation hands to writeCommand
OperationValue(op, arg) ==
    IF op \in NoArgOps THEN 0
    ELSE IF op = "setCommandTimeout" THEN 9 * 16777216 + arg   \* (0x09 << 24) | timeout_ms
    ELSE arg

\* one of the opcode wrappers (TicController.cpp:85-125)
TicOperation ==
    /\ IdleCodec
    /\ \E op \in NoArgOps \cup ArgOps, arg \in {0, 1, 127} :
            codec' = [kind |-> "op", op |-> op, arg |-> arg,
                      frames |-> <<writeCommandFrame(OpCode(op), OperationValue(op, arg))>>]
    /\ UNCHANGED <<abort, tic, periph, pc, commandQueue, executingQueue, cmd, nlines,
                   hist, fan, home, uart, pkt, interp, fw, wa>>

NextCodec ==
    TicWriteCommand \/ UartWriteCommand \/ SetThetaVelocity \/ TicConstruct
    \/ G33Rotation \/ TicOperation \/ CodecReturn

SpecCodec == InitCodec /\ [][NextCodec]_vars

\* every element is a byte
IsBytes(f) == \A i \in 1..Len(f) : f[i] \in 0..UInt8Max

\* C21: a driver write is 5 bytes, the opcode then the signed 32-bit
\* argument little-endian; a serial fixed command is 6 bytes, and the one of
\* setThetaVelocity carries the signed 32-bit velocity little-endian in its
\* last four bytes.
C21_FrameLayout ==
    \A k \in 1..Len(codec.frames) :
        LET f == codec.frames[k]
        IN  /\ IsBytes(f)
            /\ codec.kind \in {"tic", "ctor", "op"} => Len(f) = 5
            /\ codec.kind = "tic" => f[1] = codec.command /\ DecodeLE(f) = codec.value
            /\ codec.kind \in {"uart", "vel", "g33"} => Len(f) = 6
            /\ codec.kind = "uart" =>
                    f = <<codec.command, codec.sub, codec.value, 0, 0, 0>>
            /\ codec.kind = "vel" =>
                    /\ f[1] = CMD_THETA_VEL /\ f[2] = THETA_VEL_SET
                    /\ DecodeLE(SubSeq(f, 2, 6)) = codec.velocity

C21_Witness ==
    /\ codec.kind = "vel" /\ codec.velocity = -16777217
    /\ codec.frames = <<<<CMD_THETA_VEL, THETA_VEL_SET, 255, 255, 255, 254>>>>

\* the code written by setCurrentLimit in a completed construction
CurrentLimitSent == codec.frames[Len(codec.frames)][2]

Constructed == codec.kind = "ctor" /\ ~codec.threw

\* C22: the current-limit code sent at construction is round(mA/9095*127)
\* clamped to [0,127].
C22_CurrentCodeRoundedClamped ==
    Constructed =>
        LET r == RoundDiv(codec.mA * TIC_CURRENT_CODE_MAX, TIC_CURRENT_FULL_SCALE_MA)
        IN  CurrentLimitSent = (IF r > TIC_CURRENT_CODE_MAX THEN TIC_CURRENT_CODE_MAX ELSE r)

\* C23: for 2000 mA the current-limit code sent at construction is 27.
C23_Code2000 ==
    (Constructed /\ codec.mA = 2000) =>
        codec.frames[5] = <<OpCode("setCurrentLimit"), 27, 0, 0, 0>>

C23_Witness ==
    Constructed /\ codec.mA = 2000 /\ codec.mode = STEPPER_Z_STEPMODE

\* C24: for every rpm in [0,60] accepted by G33 the velocity sent to the
\* companion is rpm*245426/60 rounded to the nearest integer.
C24_G33Rounded ==
    (codec.kind = "g33" /\ codec.accepted) =>
        DecodeLE(SubSeq(codec.frames[1], 2, 6))
            = RoundDiv(codec.rpm * COUNTS_PER_THETA_REV, 60)

-----------------------------------------------------------------------------
(* Companion firmware: rotary_encoder_example_main.c.  Three tasks share     *)
(* the PID state, the PWM output and the theta counter: uart_slave_task      *)
(* (445-540), theta_velocity_task (377-441) and theta_zeroing_task           *)
(* (329-366); bb_isr_handler (296-308) runs on a beam-break edge.  fw holds  *)
(* their shared variables; pid_integral is kept as isum, the sum of the      *)
(* errors, so that pid_integral = isum * dt.                                 *)

\* control ticks of the velocity loop in one run
MaxTicks == 5

PWM_MAX == 255
MAX_STEP == 5
CONTROL_HZ == 50
KP_E4 == 600
RPM_TO_PPS_10 == 40904
ZERO_SECOND_FALL_COUNTS == 208612

\* encoder counts that can pass during one control period
Deltas == {0, 818}

\* velocities a THETA_VEL_SET command carries
VelSamples == {0, RPM_TO_PPS_10, -20452}

\* duty values a DC_SUB_PWM command carries
DutySamples == {0, 200}

\* manual: the duty of the last DC_SUB_PWM command, while no later serial
\* command has taken the output over
NoManualDuty == [set |-> FALSE, v |-> 0]

FwAtBoot ==
    [phase |-> "run",
     isum |-> 0, pid_prev_error |-> 0, pid_last_pwm |-> 0,
     desired_theta_velocity |-> 0, pid_enabled |-> FALSE,
     measured_theta_velocity |-> 0,
     duty |-> 0, dir |-> 1,
     enc |-> 0, prev_enc |-> 0,
     notif |-> FALSE, th_state |-> "TH_IDLE", theta_measured_value |-> 0,
     last_bb_tick |-> 0, zeroStarted |-> FALSE,
     sent |-> {}, hs |-> "idle", hv |-> 0,
     ticks |-> 0, tick |-> [pwm |-> 0, on |-> FALSE],
     prevTick |-> [pwm |-> 0, on |-> FALSE],
     manual |-> NoManualDuty]

InitFw ==
    /\ InitInterp /\ IdleFan /\ IdleHome /\ IdleUart /\ IdlePkt
    /\ InitInterpState /\ IdleCodec /\ IdleWa
    /\ fw = FwAtBoot

\* dc_apply_pwm_and_dir: the duty after the clamp
dc_apply_pwm(pwm_abs) ==
    IF pwm_abs < 0 THEN 0 ELSE IF pwm_abs > PWM_MAX THEN PWM_MAX ELSE pwm_abs

\* the three PID variables set to zero
PidReset(f) == [f EXCEPT !.isum = 0, !.pid_prev_error = 0, !.pid_last_pwm = 0]

\* (int)mag: |kp*err + ki*pid_integral| saturated at 255, fraction dropped;
\* kp = 0.06, ki = 0.005, pid_integral = isum/50, kd = 0
TargetPwm(err, isum) ==
    LET u == KP_E4 * err + isum
        mag == Abs(u) \div 10000
    IN  IF mag > PWM_MAX THEN PWM_MAX ELSE mag

\* the slew-rate limit on the PWM step
Slew(target_pwm, last) ==
    IF target_pwm - last > MAX_STEP THEN last + MAX_STEP
    ELSE IF target_pwm - last < -MAX_STEP THEN last - MAX_STEP
    ELSE target_pwm

\* one iteration of theta_velocity_task after its delay; delta is the
\* encoder movement during the period
VelocityTick(f, delta) ==
    LET cur == f.enc + delta
        g == [f EXCEPT !.enc = cur, !.prev_enc = cur, !.ticks = @ + 1,
                       !.prevTick = f.tick]
    IN  IF ~f.pid_enabled
        THEN [g EXCEPT !.duty = dc_apply_pwm(0), !.dir = 1,
                       !.measured_theta_velocity = 0,
                       !.tick = [pwm |-> dc_apply_pwm(0), on |-> FALSE]]
        ELSE LET d == cur - f.prev_enc
                 measured == d * CONTROL_HZ
                 err == f.desired_theta_velocity - measured
                 isum == f.isum + err
                 u == KP_E4 * err + isum
                 pwm == Slew(TargetPwm(err, isum), f.pid_last_pwm)
             IN  [g EXCEPT !.measured_theta_velocity = measured,
                           !.isum = isum, !.pid_prev_error = err,
                           !.pid_last_pwm = pwm,
                           !.duty = dc_apply_pwm(pwm),
                           !.dir = IF u >= 0 THEN 1 ELSE 0,
                           !.tick = [pwm |-> dc_apply_pwm(pwm), on |-> TRUE]]

FwRest ==
    UNCHANGED <<abort, tic, periph, pc, commandQueue, executingQueue, cmd, nlines,
                hist, fan, home, uart, pkt, interp, codec, wa>>

FwRunning == fw.phase = "run"

theta_velocity_task ==
    /\ FwRunning /\ fw.ticks < MaxTicks
    /\ \E delta \in Deltas : fw' = VelocityTick(fw, delta)
    /\ FwRest

\* case CMD_DC_DRIVER: manual control disables the PID
CmdDcDriver ==
    /\ FwRunning /\ fw.hs = "idle"
    /\ \/ \E v \in DutySamples :
            fw' = [PidReset(fw) EXCEPT !.pid_enabled = FALSE, !.duty = v,
                                       !.manual = [set |-> TRUE, v |-> v]]
       \/ \E v \in {0, 1} :
            fw' = [PidReset(fw) EXCEPT !.pid_enabled = FALSE, !.dir = v]
    /\ FwRest

\* case CMD_THETA_VEL, THETA_VEL_SET, up to the acknowledgement: the PID
\* state is reset and the task blocks in uart_wait_tx_done
CmdThetaVelSetAck ==
    /\ FwRunning /\ fw.hs = "idle"
    /\ \E v \in VelSamples :
            fw' = [PidReset(fw) EXCEPT !.sent = @ \cup {"ack"},
                                       !.hs = "vel_set", !.hv = v,
                                       !.manual = NoManualDuty]
    /\ FwRest

\* THETA_VEL_SET after the acknowledgement: the set point is stored
CmdThetaVelSetStore ==
    /\ FwRunning /\ fw.hs = "vel_set"
    /\ fw' = IF fw.hv = 0
             THEN [fw EXCEPT !.desired_theta_velocity = 0, !.pid_enabled = FALSE,
                             !.duty = dc_apply_pwm(0), !.dir = 1,
                             !.hs = "idle", !.hv = 0]
             ELSE [fw EXCEPT !.desired_theta_velocity = fw.hv, !.pid_enabled = TRUE,
                             !.hs = "idle", !.hv = 0]
    /\ FwRest

\* THETA_VEL_GET
CmdThetaVelGet ==
    /\ FwRunning /\ fw.hs = "idle"
    /\ fw' = [fw EXCEPT !.sent = @ \cup {"velocity"}]
    /\ FwRest

\* case CMD_THETA_ZERO, THETA_ZERO_START
CmdThetaZeroStart ==
    /\ FwRunning /\ fw.hs = "idle"
    /\ fw' = [PidReset(fw) EXCEPT !.desired_theta_velocity = RPM_TO_PPS_10,
                                  !.pid_enabled = TRUE, !.notif = TRUE,
                                  !.zeroStarted = TRUE, !.manual = NoManualDuty]
    /\ FwRest

\* THETA_ZERO_STATUS and THETA_ZERO_READ
CmdThetaZeroQuery ==
    /\ FwRunning /\ fw.hs = "idle"
    /\ fw' = [fw EXCEPT !.sent = @ \cup {IF fw.theta_measured_value # 0
                                         THEN "zeroed" ELSE "not zeroed"}]
    /\ FwRest

NextVel ==
    theta_velocity_task \/ CmdDcDriver \/ CmdThetaVelSetAck \/ CmdThetaVelSetStore
    \/ CmdThetaVelGet \/ CmdThetaZeroStart \/ CmdThetaZeroQuery

SpecVel == InitFw /\ [][NextVel]_vars

\* C25: in the running velocity loop the PWM magnitude applied is within
\* 0..255 and differs by at most 5 counts between two consecutive control
\* ticks, whatever the serial task did in between.
C25_PwmSlewBounded ==
    FwRunning =>
        /\ fw.duty \in 0..PWM_MAX
        /\ (fw.tick.on /\ fw.prevTick.on) =>
                Abs(fw.tick.pwm - fw.prevTick.pwm) <= MAX_STEP

-----------------------------------------------------------------------------
(* Zeroing sequence: theta_zeroing_task with the beam-break interrupt and    *)
(* the rotating stage as its environment.                                    *)

\* last_bb_tick, the time stamp of the last accepted edge, wraps after this value
MaxBbTick == 3
\* quarter revolutions the theta counter can accumulate (the count saturates)
MaxQuarters == 5

QUARTER_REV == 61357

\* the stage turns by a quarter revolution
Rotate ==
    /\ FwRunning
    /\ fw.enc < MaxQuarters * QUARTER_REV
    /\ fw' = [fw EXCEPT !.enc = @ + QUARTER_REV]
    /\ FwRest

\* bb_isr_handler on an edge outside the debounce window: only last_bb_tick
\* is updated, the zeroing task is not notified
bb_isr_handler ==
    /\ FwRunning
    /\ fw' = [fw EXCEPT !.last_bb_tick = (@ + 1) % (MaxBbTick + 1)]
    /\ FwRest

\* one iteration of the loop of theta_zeroing_task
ZeroingTick(f) ==
    LET notif == f.notif
        g == [f EXCEPT !.notif = FALSE]
        h == IF notif /\ g.th_state = "TH_FALL1"
             THEN [g EXCEPT !.enc = 0, !.prev_enc = @ - f.enc, !.th_state = "TH_LOOP"]
             ELSE IF notif /\ g.th_state = "TH_FALL2"
             THEN [PidReset(g) EXCEPT !.theta_measured_value = f.enc,
                                      !.enc = 0, !.prev_enc = @ - f.enc,
                                      !.sent = @ \cup {"done"},
                                      !.th_state = "TH_IDLE"]
             ELSE g
    IN  IF h.th_state = "TH_LOOP" /\ h.enc > ZERO_SECOND_FALL_COUNTS
        THEN [h EXCEPT !.th_state = "TH_FALL2"]
        ELSE h

theta_zeroing_task ==
    /\ FwRunning
    /\ fw' = ZeroingTick(fw)
    /\ fw' # fw
    /\ FwRest

NextZero ==
    CmdThetaZeroStart \/ CmdThetaZeroQuery \/ bb_isr_handler \/ Rotate
    \/ theta_zeroing_task

\* the tasks keep being scheduled, the stage keeps turning and the beam
\* keeps being broken
SpecZero ==
    /\ InitFw /\ [][NextZero]_vars
    /\ WF_vars(theta_zeroing_task) /\ WF_vars(Rotate) /\ WF_vars(bb_isr_handler)

\* C26: once the host has sent THETA_ZERO_START and the stage keeps turning
\* past the beam-break, the completion message is eventually sent.
C26_ZeroingCompletes == fw.zeroStarted ~> ("done" \in fw.sent)

-----------------------------------------------------------------------------
(* Claims about the abort flag in the interpreter *)

\* lines the queue loop threw away because the abort flag was up
AbortDropped == {d \in hist.dropped : d.cause = "abort"}

C28_SpaceSetsAbort == hist.spaces > 0 => abort

-----------------------------------------------------------------------------
(* Timed waits.  wait_or_abort (HeliCalHelper.cpp:56-67) polls the abort    *)
(* flag between sleeps; the interpreter's dwells (master_queue.cpp:292,     *)
(* 673, 685) call std::this_thread::sleep_for.  wa is one such call: its    *)
(* arguments, the time slept so far and what its polls found.  The flag is  *)
(* raised and cleared from outside while the call runs.                     *)

\* longest wait tried, in milliseconds
MaxTotalMs == 6
\* longest chunk tried, in milliseconds
MaxChunkMs == 4

SETTLE_MS == 150
G5_WAIT_MS == 1000

\* void clear_abort_request()
clear_abort_request ==
    /\ abort
    /\ abort' = FALSE
    /\ UNCHANGED <<tic, periph, pc, commandQueue, executingQueue, cmd, nlines,
                   hist, fan, home, uart, pkt, interp, codec, fw, wa>>

WaRest ==
    UNCHANGED <<abort, tic, periph, pc, commandQueue, executingQueue, cmd, nlines,
                hist, fan, home, uart, pkt, interp, codec, fw>>

\* wait_or_abort(total_ms, chunk_ms) is entered
wait_or_abort_call ==
    /\ IdleWa
    /\ \E total_ms \in -1..MaxTotalMs, chunk_ms \in 1..MaxChunkMs :
            wa' = [phase |-> "loop", kind |-> "wait_or_abort",
                   total_ms |-> total_ms, chunk_ms |-> chunk_ms,
                   waited |-> 0, polls |-> 0, maxStep |-> 0,
                   result |-> FALSE, setAtPoll |-> FALSE, sleptAfterSet |-> FALSE]
    /\ WaRest

wait_or_abort_blind(w, flag) ==
    IF ~(w.waited < w.total_ms)
    THEN [w EXCEPT !.phase = "returned", !.result = TRUE]
    ELSE LET step == IF w.chunk_ms < w.total_ms - w.waited
                     THEN w.chunk_ms ELSE w.total_ms - w.waited
         IN  [w EXCEPT !.polls = @ + 1, !.waited = @ + step,
                       !.maxStep = IF step > @ THEN step ELSE @]

\* the loop test and one iteration of the loop of wait_or_abort; flag is
\* what abort_requested() returns in it
wait_or_abort(w, flag) ==
    IF ~(w.waited < w.total_ms)
    THEN [w EXCEPT !.phase = "returned", !.result = TRUE]
    ELSE IF flag
    THEN [w EXCEPT !.polls = @ + 1, !.phase = "returned", !.result = FALSE]
    ELSE LET step == IF w.chunk_ms < w.total_ms - w.waited
                     THEN w.chunk_ms ELSE w.total_ms - w.waited
         IN  [w EXCEPT !.polls = @ + 1, !.waited = @ + step,
                       !.maxStep = IF step > @ THEN step ELSE @]

\* one pass through the loop; the two observation fields tell whether a
\* poll was made with the flag up and whether the call slept after one
wait_or_abort_step ==
    /\ wa.phase = "loop"
    /\ LET polled == wa.waited < wa.total_ms
           w == wait_or_abort(wa, abort_requested)
       IN  wa' = [w EXCEPT !.setAtPoll = @ \/ (polled /\ abort),
                           !.sleptAfterSet = @ \/ (polled /\ abort /\ w.waited > wa.waited)
                                               \/ (wa.setAtPoll /\ w.waited > wa.waited)]
    /\ WaRest

\* dwell lengths: the settle of a move, the wait of G5, G4 P<ms>
DwellSamples == {SETTLE_MS, G5_WAIT_MS, 0, 20, 5000}

\* std::this_thread::sleep_for(ms) is entered by a dwell
sleep_for_call ==
    /\ IdleWa
    /\ \E ms \in DwellSamples :
            wa' = [phase |-> "sleeping", kind |-> "sleep_for", total_ms |-> ms,
                   waited |-> 0, setAtEntry |-> abort, setDuring |-> FALSE]
    /\ WaRest

\* sleep_for returns after the whole duration; the flag is not read
sleep_for_return ==
    /\ wa.phase = "sleeping"
    /\ wa' = [wa EXCEPT !.phase = "returned", !.waited = wa.total_ms,
                        !.setDuring = abort /\ ~wa.setAtEntry]
    /\ WaRest

\* the caller goes on
WaitReturned ==
    /\ wa.phase = "returned"
    /\ wa' = [phase |-> "idle"]
    /\ WaRest

InitWait ==
    /\ InitInterp /\ IdleFan /\ IdleHome /\ IdleUart /\ IdlePkt
    /\ InitInterpState /\ IdleCodec /\ IdleFw /\ IdleWa

NextWait ==
    wait_or_abort_call \/ wait_or_abort_step \/ sleep_for_call \/ sleep_for_return
    \/ WaitReturned \/ request_abort \/ clear_abort_request

SpecWait == InitWait /\ [][NextWait]_vars

\* C29: an abort set during an interpreter dwell ends the dwell early.
C29_DwellEndsEarly ==
    (wa.phase = "returned" /\ wa.kind = "sleep_for" /\ wa.setDuring
        /\ wa.total_ms > 0)
        => wa.waited < wa.total_ms

CeilDiv(n, d) == (n + d - 1) \div d

\* C30: wait_or_abort returns false at the first poll that finds the flag
\* up, without sleeping again; it returns true only with total_ms slept in
\* steps of at most chunk_ms and no poll having found the flag up; for
\* total_ms >= 0 and chunk_ms >= 1 it makes at most ceil(total_ms/chunk_ms)
\* polls.
C30_WaitOrAbort ==
    (wa.phase \in {"loop", "returned"} /\ wa.kind = "wait_or_abort") =>
        /\ wa.maxStep <= wa.chunk_ms
        /\ ~wa.sleptAfterSet
        /\ (wa.setAtPoll => wa.phase = "returned" /\ ~wa.result)
        /\ (wa.phase = "returned" /\ ~wa.result) => wa.setAtPoll
        /\ (wa.phase = "returned" /\ wa.result) =>
                /\ ~wa.setAtPoll
                /\ wa.total_ms >= 0 => wa.waited = wa.total_ms
        /\ wa.total_ms >= 0 => wa.polls <= CeilDiv(wa.total_ms, wa.chunk_ms)

\* the flag goes up during the second sleep of a three-chunk wait and the
\* third poll returns false
C30_Witness ==
    /\ wa.phase = "returned" /\ wa.kind = "wait_or_abort"
    /\ ~wa.result /\ wa.polls = 3 /\ wa.waited = 2 * wa.chunk_ms
    /\ wa.total_ms > wa.waited

-----------------------------------------------------------------------------
(* Claims about the axis groups as the interpreter drives them *)

\* the target-position and max-speed values one driver was sent, in order
Received(bus, m) ==
    LET Mine(c) == c.m = m /\ c.op \in {"setTargetPosition", "setMaxSpeed"}
        mine == SelectSeq(bus, Mine)
    IN  [k \in 1..Len(mine) |-> <<mine[k].op, mine[k].val>>]

\* C31: with no failing bus transaction, after every interpreter command
\* (G0, G1, G28, G92, start-up homing) all members of an axis group have
\* received the same sequence of target-position and max-speed values, so
\* their last commanded target and speed are equal.
C31_GroupMembersAgree ==
    \A grp \in AxisGroups : \A i, j \in 1..Len(grp) :
        /\ Last.id # 0 => Received(Last.bus, grp[i]) = Received(Last.bus, grp[j])
        /\ tic[grp[i]].tgt = tic[grp[j]].tgt
        /\ tic[grp[i]].spd = tic[grp[j]].spd

\* G28 was dispatched: the last Z driver got the cap and the Z offset
C31_Witness ==
    /\ JustDispatched({"G28"})
    /\ Received(Last.bus, "tic_cw_z2") =
          <<<<"setMaxSpeed", STEPPER_Z_MAXVELOCITY>>,
            <<"setTargetPosition", HOME_OFF_Z>>>>
    /\ tic["tic_cw_z2"].tgt = HOME_OFF_Z
    /\ tic["tic_tw_z1"].spd = STEPPER_Z_MAXVELOCITY

\* C32: in every reachable interpreter state the stored A feed lies within
\* [0,60] RPM, and every theta velocity G33 sends is that of an RPM within
\* [0,60].
C32_AFeedInRange ==
    /\ interp.F_axis["A"] \in A_RPM_MIN..A_RPM_MAX
    /\ JustDispatched({"G33 A61", "G33 A-1", "G33 A30"}) =>
          \A i \in 1..Len(Last.theta) :
              \E rpm \in A_RPM_MIN..A_RPM_MAX : Last.theta[i] = rpm_to_pps(rpm)

-----------------------------------------------------------------------------
(* Claims about getImuSample's acknowledgements and the sample it returns *)

GetImuSampleReturned == pkt.phase = "returned" /\ pkt.call = "getImuSample"

\* packet j is a GET_SAMPLE ACK with a zero flag and getImuSample reads it
\* as the deciding packet with no sample parsed before it
ZeroAckFirst(ps, cache, j) ==
    /\ SampleAckAt(ps, j) /\ ps[j].payload[3] = 0
    /\ \A k \in 1..(j - 1) : PassedOver(ps[k], cache)

\* the same after the call has parsed a 44-byte SAMPLE packet
ZeroAckAfterSample(ps, cache, j) ==
    LET i == ParsedSampleAt(ps, cache)
    IN  /\ SampleAckAt(ps, j) /\ ps[j].payload[3] = 0
        /\ i # 0 /\ i < j
        /\ \A k \in (i + 1)..(j - 1) : ~SampleAckAt(ps, k)

\* C33: when an ACK for GET_SAMPLE carries a zero success flag, getImuSample
\* returns failure as a value, reading nothing after that ACK, whether the
\* ACK arrives before or after a SAMPLE packet.
C33_ZeroAckFails ==
    GetImuSampleReturned =>
        \A j \in 1..Len(pkt.packets) :
            (ZeroAckFirst(pkt.packets, pkt.cache, j)
             \/ ZeroAckAfterSample(pkt.packets, pkt.cache, j))
                => /\ pkt.result.ret = FALSE
                   /\ pkt.result.rest =
                        EncodeAll(SubSeq(pkt.packets, j + 1, Len(pkt.packets)))

\* a sample, then the zero ACK, then a successful ACK that is left unread
C33_Witness ==
    /\ GetImuSampleReturned
    /\ pkt.packets = <<Packet(PACKET_TYPE_SAMPLE, SampleBytes(1)),
                       Packet(PACKET_TYPE_ACK, <<CMD_IMU, IMU_SUB_GET_SAMPLE, 0>>),
                       Packet(PACKET_TYPE_ACK, <<CMD_IMU, IMU_SUB_GET_SAMPLE, 1>>)>>
    /\ ZeroAckAfterSample(pkt.packets, pkt.cache, 2)
    /\ ~pkt.result.ret
    /\ pkt.result.rest = Encode(pkt.packets[3])

\* C34: whenever getImuSample returns success, the sample it hands back is
\* the most recent SAMPLE payload the client has parsed, in this call or
\* cached from an earlier one; it never returns success before any SAMPLE
\* packet has been parsed since the client was created.
C34_ReturnsLatestSample ==
    (GetImuSampleReturned /\ pkt.result.ret)
        => /\ pkt.result.cache.has
           /\ pkt.result.out = pkt.result.cache.latest

-----------------------------------------------------------------------------
(* Claim about the opcode wrappers *)

\* the opcode table of the driver protocol
OpcodeTable(op) ==
    CASE op = "exitSafeStart"       -> 131
      [] op = "enterSafeStart"      -> 143
      [] op = "resetCommandTimeout" -> 133
      [] op = "energize"            -> 133
      [] op = "deenergize"          -> 134
      [] op = "reset"               -> 176
      [] op = "clearDriverError"    -> 138
      [] op = "setTargetPosition"   -> 224
      [] op = "setTargetVelocity"   -> 227
      [] op = "haltAndSetPosition"  -> 236
      [] op = "haltAndHold"         -> 137
      [] op = "goHome"              -> 151
      [] op = "setMaxSpeed"         -> 230
      [] op = "setStartingSpeed"    -> 229
      [] op = "setMaxAcceleration"  -> 234
      [] op = "setMaxDeceleration"  -> 233
      [] op = "setStepMode"         -> 148
      [] op = "setCurrentLimit"     -> 145
      [] op = "setDecayMode"        -> 146
      [] op = "setAGCOption"        -> 152
      [] op = "setCommandTimeout"   -> 163

\* C35: every driver operation emits the opcode the table lists for it as
\* the first frame byte; energize and resetCommandTimeout both emit the
\* frame [0x85,0,0,0,0], and deenergize emits 0x86.
C35_OpcodeTable ==
    codec.kind = "op" =>
        LET f == codec.frames[1]
        IN  /\ f[1] = OpcodeTable(codec.op)
            /\ codec.op \in {"energize", "resetCommandTimeout"} => f = <<133, 0, 0, 0, 0>>
            /\ codec.op = "deenergize" => f[1] = 134

\* energize was called and its frame is the one of resetCommandTimeout
C35_Witness ==
    /\ codec.kind = "op" /\ codec.op = "energize"
    /\ codec.frames = <<writeCommandFrame(OpCode("resetCommandTimeout"), 0)>>
    /\ codec.frames[1][1] = 133

-----------------------------------------------------------------------------
(* Encoder pulse counting on the companion firmware:                       *)
(* rotary_encoder_example_main.c:88-124 and 194-203.  The hardware counter *)
(* of one unit counts quadrature edges between its two limits; on reaching *)
(* a limit it returns to 0 and the watch-point callback runs with that     *)
(* limit as watch_point_value.                                             *)

\* quadrature counts followed from the last reset, in either direction
MaxNet == 40000

\* limit crossings followed
MaxWatchEvents == 3

PCNT_HIGH_LIMIT == 32767
PCNT_LOW_LIMIT == -32768

\* counts that pass between two observations: single edges and long runs
CountRuns == {-32766, -1, 1, 32766}

EncAtReset ==
    [phase |-> "enc", cnt |-> 0, total_counts |-> 0, net |-> 0, pos |-> 0, events |-> 0]

InitEnc ==
    /\ InitInterp /\ IdleFan /\ IdleHome /\ IdleUart /\ IdlePkt
    /\ InitInterpState /\ IdleCodec /\ IdleWa
    /\ fw = EncAtReset

\* pcnt_overflow_handler: the accumulator after a watch point was reached
pcnt_overflow_handler(total, wv) ==
    IF wv = PCNT_HIGH_LIMIT THEN total + PCNT_HIGH_LIMIT ELSE total - PCNT_HIGH_LIMIT

\* the unit counts a run of d edges; a run is shorter than the span to a
\* limit, so at most one limit is reached in it
pcnt_count ==
    /\ fw.phase = "enc"
    /\ \E d \in CountRuns :
        LET c == fw.cnt + d
            reached == c >= PCNT_HIGH_LIMIT \/ c <= PCNT_LOW_LIMIT
        IN  /\ Abs(fw.net + d) <= MaxNet
            /\ reached => fw.events < MaxWatchEvents
            /\ fw' = [fw EXCEPT
                        !.net = @ + d,
                        !.events = IF reached THEN @ + 1 ELSE @,
                        !.cnt = IF c >= PCNT_HIGH_LIMIT THEN c - PCNT_HIGH_LIMIT
                                ELSE IF c <= PCNT_LOW_LIMIT THEN c - PCNT_LOW_LIMIT
                                ELSE c,
                        !.total_counts =
                                IF c >= PCNT_HIGH_LIMIT
                                THEN pcnt_overflow_handler(@, PCNT_HIGH_LIMIT)
                                ELSE IF c <= PCNT_LOW_LIMIT
                                THEN pcnt_overflow_handler(@, PCNT_LOW_LIMIT)
                                ELSE @]
    /\ UNCHANGED <<abort, tic, periph, pc, commandQueue, executingQueue, cmd, nlines,
                   hist, fan, home, uart, pkt, interp, codec, wa>>

\* update_encoder_positions for one unit: pos[i] = total_counts[i] + cnt
update_encoder_positions ==
    /\ fw.phase = "enc"
    /\ fw' = [fw EXCEPT !.phase = "read", !.pos = fw.total_counts + fw.cnt]
    /\ UNCHANGED <<abort, tic, periph, pc, commandQueue, executingQueue, cmd, nlines,
                   hist, fan, home, uart, pkt, interp, codec, wa>>

\* the reported position has been used; counting goes on
EncoderReadDone ==
    /\ fw.phase = "read"
    /\ fw' = [fw EXCEPT !.phase = "enc", !.pos = 0]
    /\ UNCHANGED <<abort, tic, periph, pc, commandQueue, executingQueue, cmd, nlines,
                   hist, fan, home, uart, pkt, interp, codec, wa>>

NextEnc == pcnt_count \/ update_encoder_positions \/ EncoderReadDone

SpecEnc == InitEnc /\ [][NextEnc]_vars

\* C36: the pulse count reported for an encoder, hardware counter plus
\* overflow accumulator, equals the net number of quadrature counts since
\* the last reset for every sequence of forward and backward motion,
\* crossings of the high limit 32767 and of the low limit -32768 included.
C36_PulseCountIsNet == fw.phase = "read" => fw.pos = fw.net

-----------------------------------------------------------------------------
(* The key listener and consume_enter: HeliCalHelper.cpp:12, 23-33, 48-54. *)
(* The listener thread and the caller of consume_enter run concurrently;   *)
(* every load and store of the atomic flags is one step.                   *)

\* Enter presses and consume_enter calls followed
MaxEnters == 2
MaxConsumes == 3

\* the record of one consume_enter call; _enter_flag is kept with it
KeysAtStart ==
    [phase |-> "idle", _enter_flag |-> FALSE, ret |-> FALSE,
     presses |-> 0, trues |-> 0, calls |-> 0,
     setSinceTrue |-> FALSE, setAtLoad |-> FALSE, setSinceStore |-> FALSE]

InitKeys ==
    /\ InitInterp /\ IdleFan /\ IdleHome /\ IdleUart /\ IdlePkt
    /\ InitInterpState /\ IdleCodec /\ IdleFw
    /\ wa = KeysAtStart

\* the listener thread read '\n' or '\r': _enter_flag.store(true)
key_listener_enter ==
    /\ wa.presses < MaxEnters
    /\ wa' = [wa EXCEPT !._enter_flag = TRUE, !.presses = @ + 1,
                        !.setSinceTrue = TRUE, !.setSinceStore = TRUE]
    /\ UNCHANGED <<abort, tic, periph, pc, commandQueue, executingQueue, cmd, nlines,
                   hist, fan, home, uart, pkt, interp, codec, fw>>

\* the listener thread read ' ': _abort_flag.store(true)
key_listener_space ==
    /\ ~abort
    /\ abort' = TRUE
    /\ UNCHANGED <<tic, periph, pc, commandQueue, executingQueue, cmd, nlines,
                   hist, fan, home, uart, pkt, interp, codec, fw, wa>>

\* a variant that returns true without storing false
consume_enter_keep(flag) == flag

\* _enter_flag.store(false): the flag after the store
consume_enter_store(flag) == FALSE

\* if (_enter_flag.load()): the call reads the flag
consume_enter_load ==
    /\ wa.phase = "idle"
    /\ wa.calls < MaxConsumes
    /\ wa' = [wa EXCEPT !.phase = IF wa._enter_flag THEN "clearing" ELSE "returned",
                        !.ret = FALSE,
                        !.calls = @ + 1,
                        !.setAtLoad = wa.setSinceTrue]
    /\ UNCHANGED <<abort, tic, periph, pc, commandQueue, executingQueue, cmd, nlines,
                   hist, fan, home, uart, pkt, interp, codec, fw>>

\* _enter_flag.store(false); return true;
consume_enter_clear ==
    /\ wa.phase = "clearing"
    /\ wa' = [wa EXCEPT !.phase = "returned",
                        !._enter_flag = consume_enter_store(@),
                        !.ret = TRUE,
                        !.trues = @ + 1,
                        !.setSinceTrue = FALSE, !.setSinceStore = FALSE]
    /\ UNCHANGED <<abort, tic, periph, pc, commandQueue, executingQueue, cmd, nlines,
                   hist, fan, home, uart, pkt, interp, codec, fw>>

\* the caller has the result and may call again
consume_enter_return ==
    /\ wa.phase = "returned"
    /\ wa' = [wa EXCEPT !.phase = "idle"]
    /\ UNCHANGED <<abort, tic, periph, pc, commandQueue, executingQueue, cmd, nlines,
                   hist, fan, home, uart, pkt, interp, codec, fw>>

NextKeys ==
    \/ key_listener_enter
    \/ key_listener_space
    \/ consume_enter_load
    \/ consume_enter_clear
    \/ consume_enter_return

SpecKeys == InitKeys /\ [][NextKeys]_vars

\* C37: consume_enter returns true only if the enter flag was set since the
\* last call that returned true; it leaves the flag false when it returns
\* true (unless Enter is pressed again after its store); and in every
\* interleaving with the listener thread the number of true results never
\* exceeds the number of Enter presses.
C37_ConsumeEnter ==
    /\ (wa.phase = "returned" /\ wa.ret) =>
            /\ wa.setAtLoad
            /\ ~wa.setSinceStore => ~wa._enter_flag
    /\ wa.trues <= wa.presses

\* two Enter presses were answered by one true result: the second press was
\* absorbed by the same store, and the next call returned false
C37_Witness ==
    /\ wa.presses = 2 /\ wa.trues = 1 /\ wa.calls = 2
    /\ wa.phase = "returned" /\ ~wa.ret /\ ~wa._enter_flag
    /\ ~wa.setSinceTrue

-----------------------------------------------------------------------------
(* Claim about the queue at the prompt *)

\* C38: whenever the interpreter waits for an input line the command queue
\* is empty and executingQueue is false; so the queue never holds more than
\* one line and the "Command queued" branch is never taken.
C38_QueueEmptyAtPrompt ==
    /\ pc = "prompt" => (commandQueue = <<>> /\ ~executingQueue)
    /\ Len(commandQueue) <= 1

\* back at the prompt after the second line was executed
C38_Witness ==
    /\ pc = "prompt" /\ nlines = 2 /\ hist.ndone = 2
    /\ commandQueue = <<>> /\ ~executingQueue

-----------------------------------------------------------------------------
(* M112 on a bus and a serial link that can fail: master_queue.cpp:420-425 *)
(* inside the try block of lines 409-751.                                  *)

EstopLine == [head |-> "M", num |-> 112, axis |-> "-", val |-> 0]

\* getline returns one of the model's lines or M112 (lines 358-366)
EstopReadLine ==
    /\ pc = "prompt"
    /\ nlines < MaxLines
    /\ \E l \in LineSet \cup {EstopLine} :
        /\ commandQueue' = Append(commandQueue,
              [id |-> nlines + 1, head |-> l.head, num |-> l.num,
               axis |-> l.axis, val |-> l.val])
        /\ hist' = [hist EXCEPT !.waitErr = FALSE, !.from = "start",
                                !.onlyG1 = @ /\ l.head = "G" /\ l.num = 1]
    /\ nlines' = nlines + 1
    /\ IF executingQueue
       THEN UNCHANGED <<pc, executingQueue>>
       ELSE executingQueue' = TRUE /\ pc' = "loop_top"
    /\ UNCHANGED <<abort, tic, periph, cmd, fan, home, uart, pkt, interp, codec, fw, wa>>

\* motors_disable({'R','T','Z'}): the de-energize writes, then theta velocity 0
EstopPlan == disable_axis("R") \o disable_axis("T") \o disable_axis("Z")

(* case 112: a failing de-energize (k) or a failing serial write throws    *)
(* out of motors_disable; the catch of line 747 prints the error and main  *)
(* goes on to the wait loop.  Only when nothing threw are the projector    *)
(* powered down and the LED stopped, and main returns.                     *)
DispatchM112 ==
    /\ pc = "dispatch"
    /\ cmd.num = 112
    /\ \E k \in 0..Len(EstopPlan), uartFail \in BOOLEAN :
        /\ tic' = RunBus(tic, EstopPlan, k)
        /\ IF Threw(EstopPlan, k)
           THEN pc' = "wait" /\ periph' = periph
           ELSE IF uartFail
           THEN pc' = "wait" /\ periph' = periph
           ELSE /\ pc' = "exited"
                /\ periph' = [thetaSent |-> TRUE, theta |-> 0,
                              video |-> "powerdown", led |-> "stopped"]
        /\ hist' = [hist EXCEPT !.fault = @ \/ Threw(EstopPlan, k) \/ uartFail]
    /\ UNCHANGED <<abort, commandQueue, executingQueue, cmd, nlines,
                   fan, home, uart, pkt, interp, codec, fw, wa>>

NextEstop ==
    \/ EstopReadLine
    \/ EndOfInput
    \/ LoopExit
    \/ AbortFlush
    \/ Dequeue
    \/ Dispatch
    \/ DispatchM112
    \/ WaitPoll
    \/ MotorStep
    \/ request_abort

SpecEstop == Init /\ [][NextEstop]_vars

\* C39: M112 always ends with the projector powered down, the LED stopped
\* and the program terminated, also when a de-energize bus transaction or
\* the theta-velocity serial write fails during the emergency stop.
C39_EstopAlwaysShutsDown ==
    (cmd.num = 112 /\ pc # "dispatch")
        => /\ pc = "exited"
           /\ periph.video = "powerdown"
           /\ periph.led = "stopped"

-----------------------------------------------------------------------------
(* Claim about manual PWM and the velocity loop *)

\* C40: after a DC_DRIVER PWM command with value v the PWM duty stays v
\* until the next serial command changes it; the velocity-loop task does
\* not overwrite a manually set duty.
C40_ManualDutyKept == (FwRunning /\ fw.manual.set) => fw.duty = fw.manual.v

====
